---- MODULE Spec2Model ----
(***************************************************************************)
(* Model of the permissio-node SDK client (src/src/permissio.ts): the      *)
(* role-inheritance closure, the permission matcher, the check pipeline    *)
(* the scope resolution and the wrappers bulkCheck and checkAndThrow of    *)
(* class Permissio, and the direct use of its api clients.                 *)
(***************************************************************************)
EXTENDS Integers, Sequences, FiniteSets, TLC

VARIABLES
    \* ---- closure computation, one top-level getRolePermissions call ----
    rolesMap,      \* Map<string, IRoleRead>: role key -> [permissions, extends]
    rootKey,       \* the roleKey of the top-level call
    visited,       \* the Set<string> shared by the recursive calls
    stack,         \* call stack: frames [roleKey, permissions, extends, i]
    phase,         \* "idle" | "init" | "running" | "done"
    closure,       \* value returned by the top-level call
    expanded,      \* log: role keys whose role object was read, in order
    calls,         \* log: [roleKey, finished, permissions] of every call made
    steps,         \* number of calls and returns made so far
    \* ---- one application of the permission test of checkWithDetails ----
    mResourceType, \* resourceType of the request
    mAction,       \* request.action
    mGranted,      \* the permissions array the test reads
    mResult,       \* "pending", then "granted" or "refused": the test's value
    \* ---- one Permissio client, its operations and the service it calls ----
    constructed,   \* the IPermissioConfig fields the constructor was given
    config,        \* MutableConfig: projectId, environmentId, throwOnError
    scopeInitialized,  \* Permissio.scopeInitialized
    scopeInitPromise,  \* Permissio.scopeInitPromise: 0 (null) or a promise
    promises,      \* the promises fetchAndSetScope returned, in call order
    store,         \* the service's roles and role assignments
    ops,           \* the public operations in progress or finished
    storeCalls,    \* per operation: the requests it has sent, in order
    \* ---- the operations that wrap checkWithDetails ----
    bulk,          \* one bulkCheck call: its request, position and outcome
    access,        \* per operation: what the checkAndThrow around it produced
    \* ---- one request of an api client, from its call to its settling ----
    transport      \* the request's retry count, the answers it got, its outcome

closureVars == <<rolesMap, rootKey, visited, stack, phase, closure, expanded,
                 calls, steps>>

matchVars == <<mResourceType, mAction, mGranted, mResult>>

clientVars == <<constructed, config, scopeInitialized, scopeInitPromise,
                promises, store, ops, storeCalls>>

wrapperVars == <<bulk, access, transport>>

vars == <<closureVars, matchVars, clientVars, wrapperVars>>

\* the operations that may run on the client, concurrently or in turn
Procs == {"opA", "opB"}

\* the JavaScript value undefined of an optional string
undefined == "<undefined>"

\* truthiness of an optional string: undefined and "" are falsy
Truthy(v) == v # undefined /\ v # ""

\* the variables of the closure computation while none is modelled
ClosureIdle ==
    /\ rolesMap = <<>>
    /\ rootKey = ""
    /\ visited = {}
    /\ stack = <<>>
    /\ phase = "idle"
    /\ closure = <<>>
    /\ expanded = <<>>
    /\ calls = <<>>
    /\ steps = 0

\* the variables of the permission test while no test is modelled
MatchIdle ==
    /\ mResourceType = ""
    /\ mAction = ""
    /\ mGranted = <<>>
    /\ mResult = "pending"

\* the variables of the client while no client is modelled
ClientIdle ==
    /\ constructed = <<>>
    /\ config = <<>>
    /\ scopeInitialized = FALSE
    /\ scopeInitPromise = 0
    /\ promises = <<>>
    /\ store = <<>>
    /\ ops = <<>>
    /\ storeCalls = <<>>

\* the variables of the wrappers while none is modelled
BulkIdle == bulk = <<>>
AccessIdle == access = <<>>
TransportIdle == transport = <<>>

(***************************************************************************)
(* Arrays and sets of strings                                              *)
(***************************************************************************)

Range(arr) == {arr[i] : i \in DOMAIN arr}

\* Array.prototype.includes on an array of strings: exact string equality
includes(arr, x) == \E i \in DOMAIN arr : arr[i] = x

\* a spread that keeps every occurrence
SpreadNewSetKeepAll(arr) == arr
\* a spread that keeps the last occurrence of every element
SpreadNewSetKeepLast(arr) ==
    LET lasts == {i \in DOMAIN arr : \A j \in (i + 1)..Len(arr) : arr[j] # arr[i]}
        nth(n) == CHOOSE i \in lasts : Cardinality({j \in lasts : j < i}) = n - 1
    IN  [n \in 1..Cardinality(lasts) |-> arr[nth(n)]]

\* [...new Set(arr)]: the first occurrence of every element, in array order
SpreadNewSet(arr) ==
    LET firsts == {i \in DOMAIN arr : \A j \in 1..(i - 1) : arr[j] # arr[i]}
        nth(n) == CHOOSE i \in firsts : Cardinality({j \in firsts : j < i}) = n - 1
    IN  [n \in 1..Cardinality(firsts) |-> arr[nth(n)]]

NoDuplicates(arr) == \A i, j \in DOMAIN arr : arr[i] = arr[j] => i = j

(***************************************************************************)
(* Inputs of the closure computation                                       *)
(***************************************************************************)

RoleKeys == {"admin", "editor", "viewer"}

\* longest extends list of a role
MaxExtends == 2
\* deepest call stack the model follows; a computation that visits every
\* role once never needs more frames than there are role keys
MaxDepth == 4

\* a role either grants nothing or grants a permission of its own (listed
\* twice) and one every granting role shares: the union of a closure tells
\* which roles contributed, and duplicates arise within and across roles
PermissionListsOf(roleKey) ==
    { <<>>, <<roleKey \o ":manage", "document:read", roleKey \o ":manage">> }

\* the extends lists: up to MaxExtends parent keys, none named twice
ExtendsLists ==
    {l \in UNION {[1..n -> RoleKeys] : n \in 0..MaxExtends} :
        \A i, j \in DOMAIN l : l[i] = l[j] => i = j}

\* the role table over the keys D with the given extends lists and choices
\* of permission list; a key outside D is a role an extends list may name
\* although the table does not hold it
RoleTable(D, ext, perms) ==
    [k \in D |-> [permissions |-> perms[k], extends |-> ext[k]]]

(***************************************************************************)
(* getRolePermissions as a function (used by the check pipeline, where the *)
(* whole computation is one synchronous step)                              *)
(***************************************************************************)

RECURSIVE getRolePermissions(_, _, _)
RECURSIVE collectParents(_, _, _, _)

\* returns [permissions, visited]: the returned array and the visited set as
\* the call leaves it (the set is passed by reference)
getRolePermissions(roleKey, roles, seen) ==
    IF roleKey \in seen
    THEN [permissions |-> <<>>, visited |-> seen]
    ELSE LET seen1 == seen \cup {roleKey}
         IN  IF roleKey \notin DOMAIN roles
             THEN [permissions |-> <<>>, visited |-> seen1]
             ELSE LET role == roles[roleKey]
                      acc  == collectParents(role.extends, 1, roles,
                                  [permissions |-> role.permissions,
                                   visited |-> seen1])
                  IN  [permissions |-> SpreadNewSet(acc.permissions),
                       visited |-> acc.visited]

\* the loop "for (const parentRoleKey of role.extends)" from its i-th entry
collectParents(extends, i, roles, acc) ==
    IF i > Len(extends) THEN acc
    ELSE LET r == getRolePermissions(extends[i], roles, acc.visited)
         IN  collectParents(extends, i + 1, roles,
                 [permissions |-> acc.permissions \o r.permissions,
                  visited |-> r.visited])

(***************************************************************************)
(* The permission test of checkWithDetails                                 *)
(***************************************************************************)

\* the two pieces with no colon between them
requiredPermissionNoColon(resourceType, action) == resourceType \o action

\* `${resourceType}:${request.action}`
requiredPermissionOf(resourceType, action) == resourceType \o ":" \o action

\* a matcher that also accepts a wildcard of the action
grantsAlsoByActionWildcard(permissions, resourceType, requiredPermission) ==
    \/ includes(permissions, requiredPermission)
    \/ includes(permissions, resourceType \o ":*")
    \/ includes(permissions, "*:*")
    \/ \E a \in {"read", "write"} :
          /\ requiredPermission = resourceType \o ":" \o a
          /\ includes(permissions, "*:" \o a)

\* permissions.includes(requiredPermission) ||
\* permissions.includes(`${resourceType}:*`) || permissions.includes("*:*")
grants(permissions, resourceType, requiredPermission) ==
    \/ includes(permissions, requiredPermission)
    \/ includes(permissions, resourceType \o ":*")
    \/ includes(permissions, "*:*")

\* longest permissions array handed to the test
MaxGranted == 2

ResourceTypes == {"document", "image"}
Actions == {"read", "write"}

\* strings a permissions array may hold: grants of both types, the wildcards
\* and near misses (action wildcard, prefix, extension, other case, bare type)
GrantStrings ==
    { "document:read", "document:write", "document:*", "image:read",
      "image:*", "*:*", "*:read", "*", "document", "document:rea",
      "document:read:x", "Document:read", "DOCUMENT:*", "doc:*", ":*" }

InitMatch ==
    /\ mResourceType \in ResourceTypes
    /\ mAction \in Actions
    /\ mGranted \in UNION {[1..n -> GrantStrings] : n \in 0..MaxGranted}
    /\ mResult = "pending"
    /\ ClosureIdle
    /\ ClientIdle
    /\ BulkIdle
    /\ AccessIdle
    /\ TransportIdle

\* the test of lines 244-248 applied to the inputs
Match ==
    /\ mResult = "pending"
    /\ mResult' = IF grants(mGranted, mResourceType,
                         requiredPermissionOf(mResourceType, mAction))
                  THEN "granted" ELSE "refused"
    /\ UNCHANGED <<mResourceType, mAction, mGranted>>
    /\ UNCHANGED <<closureVars, clientVars, wrapperVars>>

NextMatch == Match

SpecMatch == InitMatch /\ [][NextMatch]_vars

\* the three strings that grant a request, written out per type and action
ExactString ==
    [t \in ResourceTypes |->
        [a \in Actions |->
            CASE t = "document" /\ a = "read"  -> "document:read"
              [] t = "document" /\ a = "write" -> "document:write"
              [] t = "image"    /\ a = "read"  -> "image:read"
              [] t = "image"    /\ a = "write" -> "image:write"]]
TypeWildcard ==
    [t \in ResourceTypes |->
        CASE t = "document" -> "document:*" [] t = "image" -> "image:*"]
GrantingStrings(t, a) == {ExactString[t][a], TypeWildcard[t], "*:*"}

\* C2: the test grants "<type>:<action>" exactly when the array holds the
\* exact string, "<type>:*" or "*:*"; an array of other strings (action
\* wildcard, other type, prefix, other case) and the empty array grant
\* nothing.
MatcherGrantsExactly ==
    mResult # "pending" =>
        /\ mResult = "granted" <=>
              Range(mGranted) \cap GrantingStrings(mResourceType, mAction) # {}
        /\ mGranted = <<>> => mResult = "refused"

\* C2 witness: a request refused although the array holds an action
\* wildcard and the other type's wildcard, and one granted by "<type>:*"
\* alone
MatcherNearMissRefused ==
    /\ mResult = "refused"
    /\ mResourceType = "document"
    /\ mAction = "read"
    /\ Range(mGranted) = {"*:read", "image:*"}

(***************************************************************************)
(* getRolePermissions step by step: one action per call and per return     *)
(***************************************************************************)

InitClosure ==
    /\ MatchIdle
    /\ ClientIdle
    /\ BulkIdle
    /\ AccessIdle
    /\ TransportIdle
    /\ \E D \in SUBSET RoleKeys :
          \E ext \in [D -> ExtendsLists] :
             \E perms \in [D -> UNION {PermissionListsOf(k) : k \in D}] :
                /\ \A k \in D : perms[k] \in PermissionListsOf(k)
                /\ rolesMap = RoleTable(D, ext, perms)
    /\ rootKey \in RoleKeys
    /\ visited = {}
    /\ stack = <<>>
    /\ phase = "init"
    /\ closure = <<>>
    /\ expanded = <<>>
    /\ calls = <<>>
    /\ steps = 0

\* a guard that never finds the key visited
AlreadyVisitedNever(roleKey) == FALSE

\* "if (visited.has(roleKey)) return []"
AlreadyVisited(roleKey) == roleKey \in visited

\* an entry that leaves the visited set as it is
MarkVisitedForgets(roleKey) == visited

\* "visited.add(roleKey)"
MarkVisited(roleKey) == visited \cup {roleKey}

\* hand the array a call returns to its caller: the top-level caller, or the
\* loop of the frame below, which pushes it onto its permissions
Deliver(stk, perms) ==
    IF stk = <<>>
    THEN /\ closure' = perms
         /\ phase' = "done"
         /\ stack' = stk
    ELSE LET top == stk[Len(stk)]
         IN  /\ stack' = [stk EXCEPT ![Len(stk)] =
                    [top EXCEPT !.permissions = top.permissions \o perms,
                                !.i = top.i + 1]]
             /\ phase' = "running"
             /\ UNCHANGED closure

\* a call getRolePermissions(roleKey, rolesMap, visited) up to its loop
Enter(roleKey) ==
    /\ steps' = steps + 1
    /\ IF AlreadyVisited(roleKey)
       THEN /\ Deliver(stack, <<>>)
            /\ calls' = Append(calls,
                   [roleKey |-> roleKey, finished |-> TRUE, permissions |-> <<>>])
            /\ UNCHANGED <<visited, expanded>>
       ELSE /\ visited' = MarkVisited(roleKey)
            /\ IF roleKey \notin DOMAIN rolesMap
               THEN /\ Deliver(stack, <<>>)
                    /\ calls' = Append(calls,
                           [roleKey |-> roleKey, finished |-> TRUE,
                            permissions |-> <<>>])
                    /\ UNCHANGED expanded
               ELSE /\ Len(stack) < MaxDepth
                    /\ stack' = Append(stack,
                           [roleKey |-> roleKey,
                            permissions |-> rolesMap[roleKey].permissions,
                            extends |-> rolesMap[roleKey].extends,
                            i |-> 1,
                            call |-> Len(calls) + 1])
                    /\ phase' = "running"
                    /\ expanded' = Append(expanded, roleKey)
                    /\ calls' = Append(calls,
                           [roleKey |-> roleKey, finished |-> FALSE,
                            permissions |-> <<>>])
                    /\ UNCHANGED closure

\* the top-level call getRolePermissions(roleKey, rolesMap, new Set())
CallRoot ==
    /\ phase = "init"
    /\ Enter(rootKey)
    /\ UNCHANGED <<rolesMap, rootKey>>
    /\ UNCHANGED <<matchVars, clientVars, wrapperVars>>

\* one iteration of the loop over role.extends: the recursive call
CallParent ==
    /\ phase = "running"
    /\ stack # <<>>
    /\ LET top == stack[Len(stack)]
       IN  /\ top.i <= Len(top.extends)
           /\ Enter(top.extends[top.i])
    /\ UNCHANGED <<rolesMap, rootKey>>
    /\ UNCHANGED <<matchVars, clientVars, wrapperVars>>

\* "return [...new Set(permissions)]" of the call on top of the stack
Return ==
    /\ phase = "running"
    /\ stack # <<>>
    /\ LET top   == stack[Len(stack)]
           perms == SpreadNewSet(top.permissions)
       IN  /\ top.i > Len(top.extends)
           /\ Deliver(SubSeq(stack, 1, Len(stack) - 1), perms)
           /\ calls' = [calls EXCEPT ![top.call] =
                  [roleKey |-> top.roleKey, finished |-> TRUE,
                   permissions |-> perms]]
    /\ steps' = steps + 1
    /\ UNCHANGED <<rolesMap, rootKey, visited, expanded>>
    /\ UNCHANGED <<matchVars, clientVars, wrapperVars>>

NextClosure == CallRoot \/ CallParent \/ Return

SpecClosure == InitClosure /\ [][NextClosure]_vars

(***************************************************************************)
(* Properties of the closure                                               *)
(***************************************************************************)

\* the role keys reachable from the keys of S by zero or more extends edges
RECURSIVE ReachableFrom(_, _)
ReachableFrom(S, roles) ==
    LET more == S \cup UNION {Range(roles[r].extends) : r \in S \cap DOMAIN roles}
    IN  IF more = S THEN S ELSE ReachableFrom(more, roles)

\* the direct permissions of the roles of the table reachable from roleKey
ReachableUnion(roleKey, roles) ==
    UNION {Range(roles[r].permissions) :
              r \in ReachableFrom({roleKey}, roles) \cap DOMAIN roles}

\* C1: for every role key and role table, the closure getRolePermissions
\* returns is, as a set, the union of the direct permissions of the roles of
\* the table reachable from the key, and it holds no entry twice.
ClosureIsReachableUnion ==
    phase = "done" =>
        /\ closure = getRolePermissions(rootKey, rolesMap, {}).permissions
        /\ Range(closure) = ReachableUnion(rootKey, rolesMap)
        /\ NoDuplicates(closure)

\* a call that names a key an earlier call of the computation named
IsRevisit(n) == \E m \in 1..(n - 1) : calls[m].roleKey = calls[n].roleKey

\* C1 witness: a finished closure of a role that reaches one role over two
\* paths and collects two different permissions
ClosureOverSharedParentDone ==
    /\ phase = "done"
    /\ Len(expanded) = 3
    /\ \E n \in DOMAIN calls : IsRevisit(n)
    /\ Len(closure) = 2

\* the calls and returns a computation can make: the top-level call, and per
\* role of the table (expanded at most once) one call per parent and a return
StepBound ==
    1 + Cardinality(DOMAIN rolesMap)
      + Cardinality({<<r, i>> \in (DOMAIN rolesMap) \X (1..MaxExtends + 1) :
                        i <= Len(rolesMap[r].extends)})

MutualCycle(x, y) ==
    /\ x # y
    /\ {x, y} \subseteq DOMAIN rolesMap
    /\ rolesMap[x].extends = <<y>>
    /\ rolesMap[y].extends = <<x>>

\* C5: the closure computation terminates without error on every role
\* table, cyclic or not: it is never stuck before it is done, it makes a
\* bounded number of steps, and for X extends Y, Y extends X the result for
\* X is exactly X's and Y's direct permissions.
ClosureTerminates ==
    /\ phase # "done" => ENABLED NextClosure
    /\ steps <= StepBound
    /\ Len(stack) <= Cardinality(DOMAIN rolesMap)
    /\ phase = "done" =>
          \A y \in RoleKeys :
              MutualCycle(rootKey, y) =>
                  Range(closure) = Range(rolesMap[rootKey].permissions)
                                      \cup Range(rolesMap[y].permissions)

\* C5 witness: the closure of X is done where X extends Y and Y extends X
\* and both grant something
MutualCycleDone ==
    /\ phase = "done"
    /\ \E y \in RoleKeys :
          /\ MutualCycle(rootKey, y)
          /\ rolesMap[rootKey].permissions # <<>>
          /\ rolesMap[y].permissions # <<>>
          /\ rolesMap[y].permissions # rolesMap[rootKey].permissions

\* C6: within one top-level computation no role key is expanded twice, and
\* every call that names an already named key returns at once with the
\* empty array.
ExpandedAtMostOnce ==
    /\ NoDuplicates(expanded)
    /\ \A n \in DOMAIN calls :
          IsRevisit(n) => calls[n].finished /\ calls[n].permissions = <<>>

\* C6 witness: a finished computation in which a role that grants something
\* was named again (over a second path or a cycle) and contributed nothing
RevisitContributedNothing ==
    /\ phase = "done"
    /\ \E n \in DOMAIN calls :
          /\ IsRevisit(n)
          /\ calls[n].roleKey \in DOMAIN rolesMap
          /\ rolesMap[calls[n].roleKey].permissions # <<>>

(***************************************************************************)
(* The client: requests, configuration and the service's data              *)
(***************************************************************************)

\* a user given as a string, or as an ICheckUser object with a key
UserString(k) == [isObject |-> FALSE, text |-> k, key |-> undefined]
UserObject(k) == [isObject |-> TRUE, text |-> undefined, key |-> k]

\* a resource given as a string, held as its chunks: the pieces between
\* colons and the colons themselves (<<"document", ":", "doc-1">> is
\* "document:doc-1"); or as an ICheckResource object
ResourceString(chunks) ==
    [isObject |-> FALSE, chunks |-> chunks, type |-> undefined, key |-> undefined]
ResourceObject(type, key) ==
    [isObject |-> TRUE, chunks |-> <<>>, type |-> type, key |-> key]

RECURSIVE Concat(_)
Concat(chunks) ==
    IF chunks = <<>> THEN "" ELSE chunks[1] \o Concat(Tail(chunks))

\* resource.split(":")[0]: the text before the first colon
RECURSIVE BeforeFirstColon(_)
BeforeFirstColon(chunks) ==
    IF chunks = <<>> \/ chunks[1] = ":" THEN ""
    ELSE chunks[1] \o BeforeFirstColon(Tail(chunks))

\* typeof user === "string" ? user : user.key
getUserKey(user) == IF ~user.isObject THEN user.text ELSE user.key

\* an extraction that takes a string resource whole
extractResourceTypeWhole(resource) ==
    IF ~resource.isObject THEN Concat(resource.chunks) ELSE resource.type

\* extractResourceType: the type of an object; of a string the text before
\* its first colon, or all of it when it holds none
extractResourceType(resource) ==
    IF ~resource.isObject
    THEN IF includes(resource.chunks, ":")
         THEN BeforeFirstColon(resource.chunks)
         ELSE Concat(resource.chunks)
    ELSE resource.type

\* the ICheckRequest values the operations are called with
CheckRequests ==
    { [user |-> UserString("u1"), action |-> "read",
       resource |-> ResourceString(<<"document">>), tenant |-> undefined],
      [user |-> UserObject("u1"), action |-> "archive",
       resource |-> ResourceString(<<"document", ":", "doc-1">>),
       tenant |-> undefined],
      [user |-> UserString("u1"), action |-> "read",
       resource |-> ResourceObject("image", "img-1"), tenant |-> "t2"] }

\* the IGetPermissionsRequest values
PermissionsRequests ==
    { [user |-> "u1", tenant |-> undefined, resource |-> undefined],
      [user |-> "u1", tenant |-> "t2", resource |-> undefined] }

NoRequest == [user |-> undefined]

Role(key, permissions, extends) ==
    [key |-> key, permissions |-> permissions, extends |-> extends]

\* the role definitions of the service: the editor/admin chain; a cycle of
\* viewer and editor with a type wildcard; a global wildcard, a parent that
\* is not defined and a key defined twice
RoleStores ==
    { << Role("editor", <<"document:read", "document:write">>, <<>>),
         Role("admin", <<"document:delete">>, <<"editor">>) >>,
      << Role("viewer", <<"image:read">>, <<"editor">>),
         Role("editor", <<"document:*">>, <<"viewer">>),
         Role("admin", <<>>, <<"viewer", "editor">>) >>,
      << Role("admin", <<"image:*">>, <<"ghost">>),
         Role("editor", <<"*:read">>, <<>>),
         Role("admin", <<"*:*">>, <<"ghost">>) >> }

Assignment(user, role, tenant) == [user |-> user, role |-> role, tenant |-> tenant]

\* the role assignments of the service
AssignmentStores ==
    { << Assignment("u1", "auditor", "t1"), Assignment("u1", "admin", "t1") >>,
      << Assignment("u1", "viewer", "t1"), Assignment("u1", "editor", "t2"),
         Assignment("u3", "admin", "t2"), Assignment("u1", "viewer", "t2") >>,
      << >> }

\* the optional projectId and environmentId the constructor is given
ConstructedScopes ==
    { <<undefined, undefined>>, <<"p-config", "e-config">>,
      <<"p-config", undefined>>, <<"", "e-config">>, <<"p-config", "">> }

\* DEFAULT_CONFIG.throwOnError
DefaultThrowOnError == TRUE

\* resolveConfig: the constructor's fields with the defaults applied; the
\* optional boolean throwOnError is held as "unset", "true" or "false"
resolveConfig(c) ==
    [projectId |-> c.projectId,
     environmentId |-> c.environmentId,
     throwOnError |-> IF c.throwOnError = "unset" THEN DefaultThrowOnError
                      ELSE c.throwOnError = "true"]

\* MutableConfig.hasScope
hasScope(cfg) == Truthy(cfg.projectId) /\ Truthy(cfg.environmentId)

\* an update that stores every fetched value, whatever the field holds
updateScopeOverwrites(cfg, projectId, environmentId) ==
    [cfg EXCEPT
        !.projectId = IF Truthy(projectId) THEN projectId ELSE @,
        !.environmentId = IF Truthy(environmentId) THEN environmentId ELSE @]

\* MutableConfig.updateScope
updateScope(cfg, projectId, environmentId) ==
    [cfg EXCEPT
        !.projectId =
            IF Truthy(projectId) /\ ~Truthy(@) THEN projectId ELSE @,
        !.environmentId =
            IF Truthy(environmentId) /\ ~Truthy(@) THEN environmentId ELSE @]

\* what an operation has produced: nothing yet, a returned value or a
\* thrown error.  One record shape serves the decision of checkWithDetails
\* (allowed, reason, debug), getPermissions (roles, permissions) and
\* getScope (projectId, environmentId).
NoOutcome ==
    [kind |-> "pending", allowed |-> FALSE, reason |-> "", hasDebug |-> FALSE,
     matchedRoles |-> <<>>, matchedPermissions |-> <<>>, error |-> "",
     roles |-> <<>>, permissions |-> <<>>,
     projectId |-> undefined, environmentId |-> undefined]

Throws(error) == [NoOutcome EXCEPT !.kind = "throw", !.error = error]

\* "return { allowed, reason }" and "return { allowed, reason, debug }"
Decision(allowed, reason) ==
    [NoOutcome EXCEPT !.kind = "return", !.allowed = allowed, !.reason = reason]
DecisionWithDebug(allowed, reason, matchedRoles, matchedPermissions) ==
    [NoOutcome EXCEPT !.kind = "return", !.allowed = allowed,
                      !.reason = reason, !.hasDebug = TRUE,
                      !.matchedRoles = matchedRoles,
                      !.matchedPermissions = matchedPermissions]

\* check: "return response.allowed" of the decision of checkWithDetails
check(outcome) ==
    IF outcome.kind = "return"
    THEN [kind |-> "return", value |-> outcome.allowed]
    ELSE [kind |-> outcome.kind, value |-> FALSE]

(***************************************************************************)
(* The service, as the client's three requests see it                      *)
(***************************************************************************)
\* a service that ignores the tenant it is asked for
listRoleAssignmentsOfUser(user, tenant) ==
    LET Selected(a) == a.user = user
    IN  SelectSeq(store.assignments, Selected)

\* GET role_assignments with params {user, tenant}: the assignments of the
\* user, of the tenant only when one is given; an undefined param is not sent
listRoleAssignments(user, tenant) ==
    LET Selected(a) == a.user = user /\ (tenant = undefined \/ a.tenant = tenant)
    IN  SelectSeq(store.assignments, Selected)

\* roles.list({ perPage: 100 })
PerPage == 100
\* a list that is served to the first operation that asks and is empty for
\* every later one
listRolesForFirstCallerOnly(perPage) ==
    IF \E q \in DOMAIN ops :
          ops[q].pc = "done" /\ includes(storeCalls[q], "GET schema/roles")
    THEN <<>>
    ELSE SubSeq(store.roles, 1, IF Len(store.roles) < perPage
                                THEN Len(store.roles) ELSE perPage)

\* GET schema/roles with params {perPage}: the first page of the roles
listRoles(perPage) ==
    SubSeq(store.roles, 1, IF Len(store.roles) < perPage
                           THEN Len(store.roles) ELSE perPage)

\* `${error}` of the PermissioApiError a failed request rejects with: its
\* name and the message transformError gave it
ApiErrorTexts ==
    { "PermissioApiError: Network error - no response received",
      "PermissioApiError: Forbidden" }

\* `${error}` of the error axios.get rejects with in fetchAndSetScope
AxiosErrorText == "AxiosError: Network Error"

\* `${error}` of the Error fetchAndSetScope throws
ScopeErrorText ==
    "Error: Permissio.io SDK: Failed to fetch API key scope. "
    \o "Either provide projectId and environmentId in config, "
    \o "or ensure the API key has valid scope. "
    \o "Error: " \o AxiosErrorText

(***************************************************************************)
(* checkWithDetails and getPermissions between their awaits                *)
(***************************************************************************)
\* role keys taken from the assignments without a resource only
roleKeysOfUnscoped(data) ==
    LET Unscoped(a) == a.resource = undefined
        kept == SelectSeq(data, Unscoped)
    IN  SpreadNewSet([i \in DOMAIN kept |-> kept[i].role])

\* [...new Set(assignmentsResponse.data.map((a) => a.role))]
roleKeysOf(data) == SpreadNewSet([i \in DOMAIN data |-> data[i].role])

\* "for (const role of rolesResponse.data || []) rolesMap.set(role.key, role)":
\* a key listed twice keeps its last role
buildRolesMap(list) ==
    [k \in {list[i].key : i \in DOMAIN list} |->
        LET last == CHOOSE i \in DOMAIN list :
                        /\ list[i].key = k
                        /\ \A j \in DOMAIN list : list[j].key = k => j <= i
        IN  [permissions |-> list[last].permissions,
             extends |-> list[last].extends]]

\* matchedRoles.join(", ")
RECURSIVE JoinComma(_)
JoinComma(arr) ==
    IF arr = <<>> THEN ""
    ELSE IF Len(arr) = 1 THEN arr[1]
    ELSE arr[1] \o ", " \o JoinComma(Tail(arr))

\* a test that never takes the early return
noAssignmentsNever(data) == FALSE

\* "!assignmentsResponse.data || assignmentsResponse.data.length === 0"
noAssignments(data) == Len(data) = 0
\* the role keys that match when one visited set serves all of them
RECURSIVE matchedOverSharedVisited(_, _, _, _)
matchedOverSharedVisited(request, roleKeys, roles, seen) ==
    IF roleKeys = <<>> THEN <<>>
    ELSE LET resourceType == extractResourceType(request.resource)
             r == getRolePermissions(roleKeys[1], roles, seen)
             rest == matchedOverSharedVisited(request, Tail(roleKeys), roles,
                                              r.visited)
         IN  IF grants(r.permissions, resourceType,
                       requiredPermissionOf(resourceType, request.action))
             THEN <<roleKeys[1]>> \o rest
             ELSE rest

\* a decision whose closures share one visited set
decideSharedVisited(request, roleKeys, roles) ==
    LET matchedRoles == matchedOverSharedVisited(request, roleKeys, roles, {})
        requiredPermission ==
            requiredPermissionOf(extractResourceType(request.resource),
                                 request.action)
    IN  DecisionWithDebug(matchedRoles # <<>>,
            IF matchedRoles # <<>>
            THEN "Granted by role(s): " \o JoinComma(matchedRoles)
            ELSE "No role grants permission " \o requiredPermission,
            matchedRoles, [i \in DOMAIN matchedRoles |-> requiredPermission])

\* a decision that tests the first role key only
decideFirstRoleOnly(request, roleKeys, roles) ==
    LET resourceType == extractResourceType(request.resource)
        requiredPermission == requiredPermissionOf(resourceType, request.action)
        Matches(roleKey) ==
            /\ roleKey = roleKeys[1]
            /\ grants(getRolePermissions(roleKey, roles, {}).permissions,
                      resourceType, requiredPermission)
        matchedRoles == SelectSeq(roleKeys, Matches)
    IN  DecisionWithDebug(matchedRoles # <<>>,
            IF matchedRoles # <<>>
            THEN "Granted by role(s): " \o JoinComma(matchedRoles)
            ELSE "No role grants permission " \o requiredPermission,
            matchedRoles, [i \in DOMAIN matchedRoles |-> requiredPermission])

\* steps 4 to the return of checkWithDetails (lines 228-273)
decide(request, roleKeys, roles) ==
    LET resourceType == extractResourceType(request.resource)
        requiredPermission == requiredPermissionOf(resourceType, request.action)
        Matches(roleKey) ==
            grants(getRolePermissions(roleKey, roles, {}).permissions,
                   resourceType, requiredPermission)
        matchedRoles == SelectSeq(roleKeys, Matches)
        matchedPermissions == [i \in DOMAIN matchedRoles |-> requiredPermission]
        allowed == Len(matchedRoles) > 0
    IN  DecisionWithDebug(allowed,
            IF allowed
            THEN "Granted by role(s): " \o JoinComma(matchedRoles)
            ELSE "No role grants permission " \o requiredPermission,
            matchedRoles, matchedPermissions)

\* a collection that takes the closure of the first role key only
allPermissionsOfFirst(roleKeys, roles) ==
    IF roleKeys = <<>> THEN <<>>
    ELSE getRolePermissions(roleKeys[1], roles, {}).permissions

\* step 4 of getPermissions: the closures of the role keys, one after another
RECURSIVE allPermissions(_, _)
allPermissions(roleKeys, roles) ==
    IF roleKeys = <<>> THEN <<>>
    ELSE getRolePermissions(roleKeys[1], roles, {}).permissions
             \o allPermissions(Tail(roleKeys), roles)

\* "return { roles, permissions }" of getPermissions
Permissions(roles, permissions) ==
    [NoOutcome EXCEPT !.kind = "return", !.roles = roles,
                      !.permissions = permissions]

\* the user key the operation asks the assignments of
userKeyOf(o) ==
    IF o.name = "checkWithDetails" THEN getUserKey(o.request.user)
    ELSE o.request.user

\* a catch block that downgrades whatever throwOnError is
caughtAlwaysDowngrades(o, error) ==
    IF o.name = "checkWithDetails"
    THEN Decision(FALSE, "Error during permission check: " \o error)
    ELSE Permissions(<<>>, <<>>)

\* the catch block of checkWithDetails (lines 274-282) and of getPermissions
\* (lines 416-421)
caught(o, error) ==
    IF config.throwOnError THEN Throws(error)
    ELSE IF o.name = "checkWithDetails"
         THEN Decision(FALSE, "Error during permission check: " \o error)
         ELSE Permissions(<<>>, <<>>)

(***************************************************************************)
(* ensureScope and the operations, one action per step between awaits      *)
(***************************************************************************)

IdleOp ==
    [name |-> "none", pc |-> "idle", request |-> NoRequest, awaits |-> 0,
     creator |-> FALSE, failed |-> "none", rejection |-> "",
     roleKeys |-> <<>>, outcome |-> NoOutcome]

Init ==
    /\ ClosureIdle
    /\ MatchIdle
    /\ BulkIdle
    /\ AccessIdle
    /\ TransportIdle
    /\ \E scope \in ConstructedScopes, throwOnError \in {"unset", "true", "false"} :
          constructed = [projectId |-> scope[1], environmentId |-> scope[2],
                         throwOnError |-> throwOnError]
    /\ config = resolveConfig(constructed)
    /\ scopeInitialized = FALSE
    /\ scopeInitPromise = 0
    /\ promises = <<>>
    /\ store \in [roles : RoleStores, assignments : AssignmentStores]
    /\ ops = [p \in Procs |-> IdleOp]
    /\ storeCalls = [p \in Procs |-> <<>>]

OpNames == {"checkWithDetails", "getPermissions", "getScope"}

RequestsOf(name) ==
    CASE name = "checkWithDetails" -> CheckRequests
      [] name = "getPermissions" -> PermissionsRequests
      [] name = "getScope" -> {NoRequest}
\* a test that takes the scope for ready only once a fetch has stored it
scopeReadyOnceFetched == scopeInitialized

\* "if (this.scopeInitialized || this.config.hasScope()) return"
scopeReady == scopeInitialized \/ hasScope(config)

\* an ensureScope that never sees a resolution in flight
inFlightIgnored == FALSE

\* "if (this.scopeInitPromise) return this.scopeInitPromise"
inFlight == scopeInitPromise # 0

\* an operation from the return of "await this.ensureScope()" to its next
\* await: getScope returns the config's scope; the others send the request
\* for the role assignments
afterScope(o) ==
    IF o.name = "getScope"
    THEN [o EXCEPT !.pc = "done",
                   !.outcome = [NoOutcome EXCEPT
                                   !.kind = "return",
                                   !.projectId = config.projectId,
                                   !.environmentId = config.environmentId]]
    ELSE [o EXCEPT !.pc = "assignments"]
\* a client on which an assignment request in flight serves every check
\* that starts meanwhile
requestsAfterScopeShared(o) ==
    IF o.name = "getScope" \/ \E q \in DOMAIN ops : ops[q].pc = "assignments"
    THEN <<>>
    ELSE <<"GET role_assignments">>

requestsAfterScope(o) ==
    IF o.name = "getScope" THEN <<>> ELSE <<"GET role_assignments">>

\* an operation that awaits ensureScope first is entered: it runs
\* ensureScope up to its first await.  With the scope ready no fetch is
\* awaited, and nothing another task does before the operation goes on can
\* change what it then reads
Enters(p, name, request) ==
    /\ ops[p].pc = "idle"
    /\ LET o == [IdleOp EXCEPT !.name = name, !.request = request]
           n == Len(promises) + 1
       IN  IF scopeReady
           THEN /\ ops' = [ops EXCEPT ![p] = afterScope(o)]
                /\ storeCalls' = [storeCalls EXCEPT
                                     ![p] = @ \o requestsAfterScope(o)]
                /\ UNCHANGED <<scopeInitPromise, promises>>
           ELSE IF inFlight
           THEN /\ ops' = [ops EXCEPT ![p] =
                       [o EXCEPT !.pc = "scope",
                                 !.awaits = scopeInitPromise]]
                /\ UNCHANGED <<scopeInitPromise, promises, storeCalls>>
           ELSE /\ promises' = Append(promises, "pending")
                /\ scopeInitPromise' = n
                /\ ops' = [ops EXCEPT ![p] =
                       [o EXCEPT !.pc = "scope", !.awaits = n,
                                 !.creator = TRUE]]
                /\ storeCalls' = [storeCalls EXCEPT
                                     ![p] = Append(@, "GET api-key/scope")]
    /\ UNCHANGED <<constructed, config, scopeInitialized, store>>
    /\ UNCHANGED <<closureVars, matchVars>>

\* a caller calls checkWithDetails, getPermissions or getScope
Call(p) ==
    /\ \E name \in OpNames :
          \E request \in RequestsOf(name) : Enters(p, name, request)
    /\ UNCHANGED wrapperVars

\* the scope request is answered: fetchAndSetScope stores the scope
ScopeFetchSucceeds ==
    /\ \E n \in DOMAIN promises :
        /\ promises[n] = "pending"
        /\ \E project_id \in {undefined, "p-key"},
              environment_id \in {undefined, "e-key"} :
                config' = updateScope(config, project_id, environment_id)
        /\ scopeInitialized' = TRUE
        /\ promises' = [promises EXCEPT ![n] = "fulfilled"]
    /\ UNCHANGED <<constructed, scopeInitPromise, store, ops, storeCalls>>
    /\ UNCHANGED <<closureVars, matchVars, wrapperVars>>

\* the scope request fails: the catch block of fetchAndSetScope
ScopeFetchFails ==
    /\ \E n \in DOMAIN promises :
        /\ promises[n] = "pending"
        /\ IF ~hasScope(config)
           THEN /\ promises' = [promises EXCEPT ![n] = "rejected"]
                /\ UNCHANGED scopeInitialized
           ELSE /\ promises' = [promises EXCEPT ![n] = "fulfilled"]
                /\ scopeInitialized' = TRUE
    /\ UNCHANGED <<constructed, config, scopeInitPromise, store, ops, storeCalls>>
    /\ UNCHANGED <<closureVars, matchVars, wrapperVars>>
\* a continuation that goes on whatever became of the resolution
resumedIgnoringRejection(o) == afterScope(o)

\* an operation goes on after the promise it awaited in ensureScope settled;
\* a rejection leaves every operation through its "await this.ensureScope()",
\* which stands before the try block
resumed(o) ==
    IF promises[o.awaits] = "fulfilled"
    THEN afterScope(o)
    ELSE [o EXCEPT !.pc = "done", !.failed = "scope",
                   !.rejection = ScopeErrorText,
                   !.outcome = Throws(ScopeErrorText)]

requestsOnResume(o) ==
    IF promises[o.awaits] = "fulfilled" THEN requestsAfterScope(o) ELSE <<>>
\* a creator that goes on and leaves the handle as it is
ScopeCreatorLeavesHandle(p) ==
    /\ ops[p].pc = "scope"
    /\ ops[p].creator
    /\ promises[ops[p].awaits] # "pending"
    /\ ops' = [ops EXCEPT ![p] = resumed(ops[p])]
    /\ storeCalls' = [storeCalls EXCEPT ![p] = @ \o requestsOnResume(ops[p])]
    /\ UNCHANGED <<constructed, config, scopeInitialized, scopeInitPromise,
                   promises, store>>
    /\ UNCHANGED <<closureVars, matchVars, wrapperVars>>

\* the operation that called fetchAndSetScope goes on: the finally block
\* clears the handle
ScopeCreatorResumes(p) ==
    /\ ops[p].pc = "scope"
    /\ ops[p].creator
    /\ promises[ops[p].awaits] # "pending"
    /\ scopeInitPromise' = 0
    /\ ops' = [ops EXCEPT ![p] = resumed(ops[p])]
    /\ storeCalls' = [storeCalls EXCEPT ![p] = @ \o requestsOnResume(ops[p])]
    /\ UNCHANGED <<constructed, config, scopeInitialized, promises, store>>
    /\ UNCHANGED <<closureVars, matchVars, wrapperVars>>

\* an operation that was handed the promise in flight goes on; its reaction
\* was registered after the creator's, so it runs after the finally block
ScopeJoinerResumes(p) ==
    /\ ops[p].pc = "scope"
    /\ ~ops[p].creator
    /\ promises[ops[p].awaits] # "pending"
    /\ \E q \in DOMAIN ops :
          /\ ops[q].creator
          /\ ops[q].awaits = ops[p].awaits
          /\ ops[q].pc # "scope"
    /\ ops' = [ops EXCEPT ![p] = resumed(ops[p])]
    /\ storeCalls' = [storeCalls EXCEPT ![p] = @ \o requestsOnResume(ops[p])]
    /\ UNCHANGED <<constructed, config, scopeInitialized, scopeInitPromise,
                   promises, store>>
    /\ UNCHANGED <<closureVars, matchVars, wrapperVars>>

\* the role assignments arrive (lines 192-209 and 385-395)
AssignmentsFetchSucceeds(p) ==
    /\ ops[p].pc = "assignments"
    /\ LET o == ops[p]
           data == listRoleAssignments(userKeyOf(o), o.request.tenant)
       IN  IF noAssignments(data)
           THEN /\ ops' = [ops EXCEPT ![p] =
                       [o EXCEPT !.pc = "done",
                                 !.outcome =
                                    IF o.name = "checkWithDetails"
                                    THEN Decision(FALSE,
                                            "User " \o userKeyOf(o)
                                               \o " has no role assignments")
                                    ELSE Permissions(<<>>, <<>>)]]
                /\ UNCHANGED storeCalls
           ELSE /\ ops' = [ops EXCEPT ![p] =
                       [o EXCEPT !.pc = "roles", !.roleKeys = roleKeysOf(data)]]
                /\ storeCalls' = [storeCalls EXCEPT
                                     ![p] = Append(@, "GET schema/roles")]
    /\ UNCHANGED <<constructed, config, scopeInitialized, scopeInitPromise,
                   promises, store>>
    /\ UNCHANGED <<closureVars, matchVars, wrapperVars>>

\* the request for the role assignments is rejected
AssignmentsFetchFails(p) ==
    /\ ops[p].pc = "assignments"
    /\ \E error \in ApiErrorTexts :
          ops' = [ops EXCEPT ![p] =
              [@ EXCEPT !.pc = "done", !.failed = "assignments",
                        !.rejection = error,
                        !.outcome = caught(ops[p], error)]]
    /\ UNCHANGED <<constructed, config, scopeInitialized, scopeInitPromise,
                   promises, store, storeCalls>>
    /\ UNCHANGED <<closureVars, matchVars, wrapperVars>>

\* the role definitions arrive (lines 209-273 and 395-415)
RolesFetchSucceeds(p) ==
    /\ ops[p].pc = "roles"
    /\ LET o == ops[p]
           roles == buildRolesMap(listRoles(PerPage))
       IN  ops' = [ops EXCEPT ![p] =
               [o EXCEPT !.pc = "done",
                         !.outcome =
                            IF o.name = "checkWithDetails"
                            THEN decide(o.request, o.roleKeys, roles)
                            ELSE Permissions(o.roleKeys,
                                    SpreadNewSet(
                                        allPermissions(o.roleKeys, roles)))]]
    /\ UNCHANGED <<constructed, config, scopeInitialized, scopeInitPromise,
                   promises, store, storeCalls>>
    /\ UNCHANGED <<closureVars, matchVars, wrapperVars>>

\* the request for the role definitions is rejected
RolesFetchFails(p) ==
    /\ ops[p].pc = "roles"
    /\ \E error \in ApiErrorTexts :
          ops' = [ops EXCEPT ![p] =
              [@ EXCEPT !.pc = "done", !.failed = "roles",
                        !.rejection = error,
                        !.outcome = caught(ops[p], error)]]
    /\ UNCHANGED <<constructed, config, scopeInitialized, scopeInitPromise,
                   promises, store, storeCalls>>
    /\ UNCHANGED <<closureVars, matchVars, wrapperVars>>

Next ==
    \/ \E p \in Procs : Call(p)
    \/ ScopeFetchSucceeds
    \/ ScopeFetchFails
    \/ \E p \in Procs : ScopeCreatorResumes(p)
    \/ \E p \in Procs : ScopeJoinerResumes(p)
    \/ \E p \in Procs : AssignmentsFetchSucceeds(p)
    \/ \E p \in Procs : AssignmentsFetchFails(p)
    \/ \E p \in Procs : RolesFetchSucceeds(p)
    \/ \E p \in Procs : RolesFetchFails(p)

Spec == Init /\ [][Next]_vars

(***************************************************************************)
(* Properties of the decision                                              *)
(***************************************************************************)

\* the processes whose operation is checkWithDetails
Checks == {p \in Procs : ops[p].name = "checkWithDetails"}

\* a check that came to its end with no request of its own failed
FinishedCheck(p) ==
    /\ p \in Checks
    /\ ops[p].pc = "done"
    /\ ops[p].failed = "none"

\* the role keys the service holds assigned to the user of the operation, in
\* the tenant of the request when it names one
AssignedRoles(o) ==
    {store.assignments[i].role : i \in
        {j \in DOMAIN store.assignments :
            /\ store.assignments[j].user = getUserKey(o.request.user)
            /\ o.request.tenant # undefined =>
                  store.assignments[j].tenant = o.request.tenant}}

\* the role table of the service: per key the role listed last
ServiceTable == buildRolesMap(store.roles)

\* the assigned roles of which some reachable role grants the permission
\* itself, the wildcard of its resource type or the global wildcard
GrantingRoles(o) ==
    LET resourceType == extractResourceType(o.request.resource)
        accepted == {resourceType \o ":" \o o.request.action,
                     resourceType \o ":*", "*:*"}
    IN  {r \in AssignedRoles(o) :
            ReachableUnion(r, ServiceTable) \cap accepted # {}}

\* the editor/admin table of the example, with the one assignment of admin
ExampleStore ==
    /\ store.roles = << Role("editor", <<"document:read", "document:write">>, <<>>),
                        Role("admin", <<"document:delete">>, <<"editor">>) >>
    /\ \A i \in DOMAIN store.assignments :
          store.assignments[i].user = "u1" =>
              store.assignments[i].role \in {"admin", "auditor"}

\* C3: a check of a user with at least one assignment and no failed fetch
\* allows exactly when some assigned role's closure satisfies the matcher;
\* matchedRoles are those roles; the reason is "Granted by role(s): " and the
\* comma-joined matchedRoles when allowed and "No role grants permission "
\* and the required permission otherwise.  With admin extending editor and
\* editor granting document:read, u1 assigned admin may read a document and
\* may not archive one.
CheckAllowsIffSomeClosureMatches ==
    \A p \in Procs :
        FinishedCheck(p) /\ AssignedRoles(ops[p]) # {} =>
            LET o == ops[p]
                d == o.outcome
                required == extractResourceType(o.request.resource)
                                \o ":" \o o.request.action
            IN  /\ d.kind = "return"
                /\ d.allowed <=> GrantingRoles(o) # {}
                /\ Range(d.matchedRoles) = GrantingRoles(o)
                /\ NoDuplicates(d.matchedRoles)
                /\ d.reason = IF d.allowed
                              THEN "Granted by role(s): " \o JoinComma(d.matchedRoles)
                              ELSE "No role grants permission " \o required
                /\ ExampleStore /\ o.request.tenant = undefined =>
                      IF o.request.action = "read"
                      THEN d.allowed /\ d.reason = "Granted by role(s): admin"
                      ELSE /\ ~d.allowed
                           /\ d.reason = "No role grants permission document:archive"

\* C3 witness: one check is allowed over a permission only the parent of the
\* assigned role holds, and another is denied because no closure grants it
InheritedGrantAndDenial ==
    /\ ExampleStore
    /\ \E p \in Procs :
          /\ FinishedCheck(p)
          /\ ops[p].outcome.allowed
          /\ ops[p].outcome.matchedRoles = <<"admin">>
          /\ ~includes(ServiceTable["admin"].permissions, "document:read")
    /\ \E p \in Procs :
          /\ FinishedCheck(p)
          /\ AssignedRoles(ops[p]) # {}
          /\ ~ops[p].outcome.allowed
          /\ ops[p].request.action = "archive"

\* C4: a check whose assignment fetch returns no assignment returns
\* allowed = false with the reason "User <userKey> has no role assignments",
\* and the call never requests the role definitions: its last request is the
\* one for the assignments.
NoAssignmentsShortCircuit ==
    \A p \in Checks :
        LET o == ops[p]
            sent == storeCalls[p]
        IN  AssignedRoles(o) = {} =>
                /\ ~includes(sent, "GET schema/roles")
                /\ o.pc # "roles"
                /\ o.pc = "done" /\ o.failed = "none" =>
                      /\ o.outcome = Decision(FALSE, "User " \o getUserKey(o.request.user)
                                                  \o " has no role assignments")
                      /\ o.outcome.reason = "User u1 has no role assignments"
                      /\ sent # <<>>
                      /\ sent[Len(sent)] = "GET role_assignments"

\* C4 witness: a check ended on an empty answer to its assignment fetch
\* while the service holds assignments of the user in another tenant
EndedOnNoAssignments ==
    \E p \in Checks :
        /\ FinishedCheck(p)
        /\ AssignedRoles(ops[p]) = {}
        /\ ops[p].request.tenant = "t2"
        /\ \E i \in DOMAIN store.assignments : store.assignments[i].user = "u1"
        /\ ops[p].outcome.reason = "User u1 has no role assignments"

\* C7: with throwOnError = false neither checkWithDetails nor check raises:
\* whatever failed, the failed scope resolution included, the decision is
\* allowed = false with the reason "Error during permission check: <error>"
\* and check returns false.
ThrowOnErrorOffNeverRaises ==
    \A p \in Checks :
        ~config.throwOnError /\ ops[p].pc = "done" =>
            /\ ops[p].outcome.kind = "return"
            /\ check(ops[p].outcome).kind = "return"
            /\ ops[p].failed # "none" =>
                  /\ ops[p].outcome =
                        Decision(FALSE, "Error during permission check: "
                                            \o ops[p].rejection)
                  /\ check(ops[p].outcome).value = FALSE

\* C8: when the fetch of the assignments or of the role definitions fails
\* during checkWithDetails, then with throwOnError = true, the default, the
\* call throws that same error, and with throwOnError = false it returns
\* allowed = false with the reason "Error during permission check: <error>"
\* and no debug metadata; no grant is returned either way.
FetchFailureRethrownOrDowngraded ==
    \A p \in Checks :
        LET o == ops[p]
        IN  o.pc = "done" /\ o.failed \in {"assignments", "roles"} =>
                /\ o.rejection \in ApiErrorTexts
                /\ constructed.throwOnError \in {"unset", "true"} =>
                      o.outcome.kind = "throw" /\ o.outcome.error = o.rejection
                /\ constructed.throwOnError = "false" =>
                      /\ o.outcome.kind = "return"
                      /\ ~o.outcome.allowed
                      /\ o.outcome.reason = "Error during permission check: "
                                                \o o.rejection
                      /\ ~o.outcome.hasDebug
                      /\ o.outcome.matchedRoles = <<>>
                /\ ~(o.outcome.kind = "return" /\ o.outcome.allowed)

\* C8 witness: on a client built without throwOnError the fetch of the role
\* definitions failed on one check, which threw "PermissioApiError: Forbidden"
DefaultRethrowsRolesFailure ==
    \E p \in Checks :
        /\ ops[p].pc = "done"
        /\ ops[p].failed = "roles"
        /\ constructed.throwOnError = "unset"
        /\ ops[p].outcome = Throws("PermissioApiError: Forbidden")

(***************************************************************************)
(* Properties of the scope resolution                                      *)
(***************************************************************************)

\* the requests for the scope sent so far: an operation sends at most one
ScopeFetches ==
    Cardinality({p \in Procs : includes(storeCalls[p], "GET api-key/scope")})

\* the operations that awaited the resolution n
Awaited(n) == {p \in Procs : ops[p].awaits = n}

\* C9: while a resolution is in flight every operation that calls
\* ensureScope awaits that one resolution: at most one resolution is pending,
\* the operations waiting on it all hold the handle in flight, one request
\* for the scope was sent per resolution, by its one creator, and the
\* operations that awaited one resolution all went on or all failed with
\* the same error.
ScopeSingleFlight ==
    /\ Cardinality({n \in DOMAIN promises : promises[n] = "pending"}) <= 1
    /\ ScopeFetches = Len(promises)
    /\ \A n \in DOMAIN promises :
          /\ Cardinality({p \in Awaited(n) : ops[p].creator}) = 1
          /\ promises[n] = "pending" =>
                /\ scopeInitPromise = n
                /\ \A p \in Awaited(n) : ops[p].pc = "scope"
          /\ \A p \in Awaited(n) :
                ops[p].pc # "scope" =>
                    /\ ops[p].failed = "scope" <=> promises[n] = "rejected"
                    /\ ops[p].failed = "scope" =>
                          ops[p].outcome = Throws(ScopeErrorText)
    /\ \A p \in Procs :
          ops[p].pc = "scope" => ops[p].awaits \in DOMAIN promises
    /\ \A p, q \in Procs :
          ops[p].pc = "scope" /\ ops[q].pc = "scope" =>
              ops[p].awaits = ops[q].awaits

\* C9 witness: two operations awaited one resolution, for which one request
\* was sent, and both went on with the scope it stored
TwoOperationsOneScopeFetch ==
    /\ Len(promises) = 1
    /\ promises[1] = "fulfilled"
    /\ ScopeFetches = 1
    /\ \A p \in Procs : ops[p].awaits = 1 /\ ops[p].pc = "done"
    /\ \E p \in Procs : ~ops[p].creator
    /\ hasScope(config)

\* C10 as stated: a projectId or environmentId given to the constructor,
\* whatever string it is, is the one the config holds in every state
SuppliedScopeNeverChanged ==
    /\ constructed.projectId # undefined =>
          config.projectId = constructed.projectId
    /\ constructed.environmentId # undefined =>
          config.environmentId = constructed.environmentId

\* C10: a non-empty projectId or environmentId given to the constructor is
\* the one the config holds in every state, whatever the scope endpoint
\* returns; a fetched value is stored only into a field that was undefined
\* or the empty string, and no other step changes the fields.
NonEmptySuppliedScopeNeverChanged ==
    /\ Truthy(constructed.projectId) =>
          config.projectId = constructed.projectId
    /\ Truthy(constructed.environmentId) =>
          config.environmentId = constructed.environmentId
    /\ config.projectId \in {constructed.projectId, "p-key"}
    /\ config.environmentId \in {constructed.environmentId, "e-key"}

\* C10 witness: the scope endpoint answered with both values to a client
\* built with a projectId only, which kept its projectId and took the
\* environmentId
FetchedScopeFilledUnsetFieldOnly ==
    /\ constructed.projectId = "p-config"
    /\ constructed.environmentId = undefined
    /\ config.projectId = "p-config"
    /\ config.environmentId = "e-key"
    /\ scopeInitialized

\* the request log of p holds no request to the store
NoStoreRequest(p) ==
    /\ ~includes(storeCalls[p], "GET role_assignments")
    /\ ~includes(storeCalls[p], "GET schema/roles")

\* the operation of p awaited a scope resolution that was rejected
ScopeRejectedFor(p) ==
    /\ ops[p].awaits \in DOMAIN promises
    /\ promises[ops[p].awaits] = "rejected"

\* C11: on a client built with neither projectId nor environmentId an
\* operation whose scope fetch failed ends at once with the scope error:
\* getScope always, checkWithDetails and getPermissions at least under
\* throwOnError = true; and under either policy the operation requests
\* neither the role assignments nor the role definitions.
UnscopedFailureIsFatal ==
    constructed.projectId = undefined /\ constructed.environmentId = undefined =>
        \A p \in Procs :
            /\ ops[p].pc = "scope" => NoStoreRequest(p)
            /\ ScopeRejectedFor(p) =>
                  /\ NoStoreRequest(p)
                  /\ ops[p].pc \in {"scope", "done"}
                  /\ ops[p].pc = "done"
                     /\ (ops[p].name = "getScope" \/ config.throwOnError) =>
                        /\ ops[p].outcome.kind = "throw"
                        /\ ops[p].outcome.error = ScopeErrorText

\* C11 witness: on such a client getScope and, under throwOnError = true, a
\* checkWithDetails both ended with the scope error, the second on a
\* resolution of its own
UnscopedGetScopeAndCheckFailed ==
    /\ constructed.projectId = undefined /\ constructed.environmentId = undefined
    /\ config.throwOnError
    /\ \E p, q \in Procs :
          /\ ops[p].name = "getScope" /\ ops[q].name = "checkWithDetails"
          /\ ops[p].outcome = Throws(ScopeErrorText)
          /\ ops[q].outcome = Throws(ScopeErrorText)
          /\ ops[p].awaits # ops[q].awaits

\* exactly one of projectId and environmentId was given to the constructor
PartialScopeSupplied ==
    (constructed.projectId = undefined) # (constructed.environmentId = undefined)

\* C12: on a client built with exactly one of projectId and environmentId a
\* failed scope fetch is swallowed: no resolution is rejected, no operation
\* ends with the scope error, and once the fetch has failed the client is
\* marked as resolved and the operations go on.
PartialScopeFailureSwallowed ==
    PartialScopeSupplied =>
        /\ \A n \in DOMAIN promises : promises[n] # "rejected"
        /\ \A p \in Procs : ops[p].failed # "scope"
        /\ \A n \in DOMAIN promises : promises[n] = "fulfilled" => scopeInitialized

(***************************************************************************)
(* bulkCheck: the checks of one request run concurrently                   *)
(***************************************************************************)

\* the IBulkCheckRequest.checks arrays bulkCheck is called with: none, one,
\* three different requests, and three of which two are the same
BulkRequests ==
    LET readDocument == [user |-> UserString("u1"), action |-> "read",
                         resource |-> ResourceString(<<"document">>),
                         tenant |-> undefined]
        archiveDoc1  == [user |-> UserObject("u1"), action |-> "archive",
                         resource |-> ResourceString(<<"document", ":", "doc-1">>),
                         tenant |-> undefined]
        readImage    == [user |-> UserString("u1"), action |-> "read",
                         resource |-> ResourceObject("image", "img-1"),
                         tenant |-> "t2"]
    IN  { <<>>, <<archiveDoc1>>,
          <<readDocument, archiveDoc1, readImage>>,
          <<readImage, readDocument, readDocument>> }

\* what bulkCheck has produced: nothing yet, { results } or a thrown error
NoBulkOutcome == [kind |-> "pending", error |-> "", results |-> <<>>]

\* the state of a bulkCheck call: the checks of its request, the index map
\* has reached, the mapped closures that settled (in the order in which they
\* settled) and the outcome
IdleBulk(checks) ==
    [pc |-> "idle", checks |-> checks, next |-> 1, settled |-> <<>>,
     outcome |-> NoBulkOutcome]

\* "({ request: check, response: await this.checkWithDetails(check) })"
pairOf(b, items, i) == [request |-> b.checks[i], response |-> items[i].outcome]

\* results in the order in which the mapped closures settled
bulkResultsAsSettled(b, items) ==
    [k \in 1..Len(b.settled) |-> pairOf(b, items, b.settled[k])]

\* "const results = await Promise.all(request.checks.map(...))": the values
\* of the closures in the order of request.checks
bulkResults(b, items) ==
    [i \in 1..Len(b.checks) |-> pairOf(b, items, i)]

\* the response of every entry after a failure of the batch
BulkStub == Decision(FALSE, "Error during permission check")

\* a catch block that degrades the batch whatever throwOnError is
bulkCaughtAlwaysStubs(b, items, error) ==
    [kind |-> "return", error |-> "",
     results |-> [i \in 1..Len(b.checks) |->
                     [request |-> b.checks[i], response |-> BulkStub]]]

\* the catch block of bulkCheck (lines 344-354)
bulkCaught(b, items, error) ==
    IF config.throwOnError
    THEN [kind |-> "throw", error |-> error, results |-> <<>>]
    ELSE [kind |-> "return", error |-> "",
          results |-> [i \in 1..Len(b.checks) |->
                          [request |-> b.checks[i], response |-> BulkStub]]]

\* the client configurations bulkCheck is run on
BulkScopes == { <<undefined, undefined>>, <<"p-config", "e-config">> }

InitBulk ==
    /\ ClosureIdle
    /\ MatchIdle
    /\ AccessIdle
    /\ TransportIdle
    /\ \E scope \in BulkScopes, throwOnError \in {"unset", "false"} :
          constructed = [projectId |-> scope[1], environmentId |-> scope[2],
                         throwOnError |-> throwOnError]
    /\ config = resolveConfig(constructed)
    /\ scopeInitialized = FALSE
    /\ scopeInitPromise = 0
    /\ promises = <<>>
    /\ store \in [roles : RoleStores, assignments : AssignmentStores]
    /\ \E checks \in BulkRequests :
          /\ bulk = IdleBulk(checks)
          /\ ops = [i \in 1..Len(checks) |-> IdleOp]
          /\ storeCalls = [i \in 1..Len(checks) |-> <<>>]

\* bulkCheck is called: request.checks.map starts
BulkCheckCalled ==
    /\ bulk.pc = "idle"
    /\ bulk' = [bulk EXCEPT !.pc = IF Len(bulk.checks) = 0
                                   THEN "awaiting" ELSE "mapping"]
    /\ UNCHANGED <<closureVars, matchVars, clientVars, access, transport>>

\* map calls the closure of the next check, which calls checkWithDetails;
\* the call runs up to its first await before map goes on
BulkMaps ==
    /\ bulk.pc = "mapping"
    /\ Enters(bulk.next, "checkWithDetails", bulk.checks[bulk.next])
    /\ bulk' = IF bulk.next = Len(bulk.checks)
               THEN [bulk EXCEPT !.pc = "awaiting"]
               ELSE [bulk EXCEPT !.next = @ + 1]
    /\ UNCHANGED <<access, transport>>

\* the closure of check i goes on after its checkWithDetails settled
MappedClosureSettles(i) ==
    /\ bulk.pc # "mapping"
    /\ ops[i].pc = "done"
    /\ ~includes(bulk.settled, i)
    /\ bulk' = [bulk EXCEPT !.settled = Append(@, i)]
    /\ UNCHANGED <<closureVars, matchVars, clientVars, access, transport>>

\* Promise.all is fulfilled: every closure returned its pair
BulkReturns ==
    /\ bulk.pc = "awaiting"
    /\ Len(bulk.settled) = Len(bulk.checks)
    /\ \A i \in DOMAIN ops : ops[i].outcome.kind = "return"
    /\ bulk' = [bulk EXCEPT !.pc = "done",
                            !.outcome = [kind |-> "return", error |-> "",
                                         results |-> bulkResults(bulk, ops)]]
    /\ UNCHANGED <<closureVars, matchVars, clientVars, access, transport>>

\* Promise.all is rejected with the error of the first closure that threw
BulkCatches ==
    /\ bulk.pc = "awaiting"
    /\ \E k \in DOMAIN bulk.settled :
          /\ ops[bulk.settled[k]].outcome.kind = "throw"
          /\ \A j \in 1..(k - 1) : ops[bulk.settled[j]].outcome.kind = "return"
          /\ bulk' = [bulk EXCEPT
                        !.pc = "done",
                        !.outcome = bulkCaught(bulk, ops,
                                       ops[bulk.settled[k]].outcome.error)]
    /\ UNCHANGED <<closureVars, matchVars, clientVars, access, transport>>

\* the requests of the checks are answered while map is not running
NextBulk ==
    \/ BulkCheckCalled
    \/ BulkMaps
    \/ \E i \in DOMAIN ops : MappedClosureSettles(i)
    \/ BulkReturns
    \/ BulkCatches
    \/ bulk.pc # "mapping" /\ ScopeFetchSucceeds
    \/ bulk.pc # "mapping" /\ ScopeFetchFails
    \/ bulk.pc # "mapping" /\ \E i \in DOMAIN ops : ScopeCreatorResumes(i)
    \/ bulk.pc # "mapping" /\ \E i \in DOMAIN ops : ScopeJoinerResumes(i)
    \/ bulk.pc # "mapping" /\ \E i \in DOMAIN ops : AssignmentsFetchSucceeds(i)
    \/ bulk.pc # "mapping" /\ \E i \in DOMAIN ops : AssignmentsFetchFails(i)
    \/ bulk.pc # "mapping" /\ \E i \in DOMAIN ops : RolesFetchSucceeds(i)
    \/ bulk.pc # "mapping" /\ \E i \in DOMAIN ops : RolesFetchFails(i)

SpecBulk == InitBulk /\ [][NextBulk]_vars

(***************************************************************************)
(* Properties of bulkCheck                                                 *)
(***************************************************************************)

\* the checks of the batch whose checkWithDetails threw
ThrownChecks == {i \in DOMAIN ops : ops[i].outcome.kind = "throw"}

\* C13: when bulkCheck returns, it returns as many results as checks were
\* submitted, the i-th result holds the i-th submitted request, and, no
\* check having thrown, the decision checkWithDetails gave for that
\* request, in whatever order the checks and their fetches completed.
BulkResultsPairedInOrder ==
    bulk.pc = "done" /\ bulk.outcome.kind = "return" =>
        LET results == bulk.outcome.results
        IN  /\ Len(results) = Len(bulk.checks)
            /\ \A i \in DOMAIN results :
                  /\ results[i].request = bulk.checks[i]
                  /\ ThrownChecks = {} =>
                        /\ ops[i].pc = "done"
                        /\ ops[i].request = bulk.checks[i]
                        /\ results[i].response = ops[i].outcome
                        /\ results[i].response.hasDebug
                           /\ ~results[i].response.allowed =>
                              results[i].response.reason =
                                  "No role grants permission "
                                     \o extractResourceType(bulk.checks[i].resource)
                                     \o ":" \o bulk.checks[i].action

\* C13 witness: three different checks returned, the third first, and the
\* results hold a grant and a refusal, each with its request
BulkReturnedOutOfCompletionOrder ==
    /\ bulk.pc = "done"
    /\ bulk.outcome.kind = "return"
    /\ Len(bulk.outcome.results) = 3
    /\ bulk.settled[1] = 3
    /\ bulk.checks[1] # bulk.checks[2] /\ bulk.checks[2] # bulk.checks[3]
    /\ bulk.outcome.results[1].response.allowed
    /\ bulk.outcome.results[1].request.action = "read"
    /\ ~bulk.outcome.results[2].response.allowed
    /\ bulk.outcome.results[2].request.action = "archive"

\* C14: bulkCheck applies the error policy to the batch.  With throwOnError
\* = true it throws as soon as a check has thrown, with the error of a check
\* and no results, and returns only when no check threw.  With throwOnError
\* = false it never throws, and when a check threw (the scope resolution
\* failed) every entry is {allowed: false, reason: "Error during permission
\* check"} with its own request, one entry per submitted request.
BulkAppliesErrorPolicy ==
    /\ bulk.pc = "awaiting"
       /\ (\E k \in DOMAIN bulk.settled : bulk.settled[k] \in ThrownChecks) =>
          ENABLED BulkCatches
    /\ bulk.pc = "done" =>
          LET out == bulk.outcome
          IN  IF constructed.throwOnError # "false"
              THEN /\ out.kind = "throw" <=> ThrownChecks # {}
                   /\ out.kind = "throw" =>
                         /\ out.results = <<>>
                         /\ \E i \in ThrownChecks : out.error = ops[i].outcome.error
              ELSE /\ out.kind = "return"
                   /\ Len(out.results) = Len(bulk.checks)
                   /\ \A i \in DOMAIN out.results :
                         /\ out.results[i].request = bulk.checks[i]
                         /\ ThrownChecks # {} =>
                               /\ out.results[i].response.kind = "return"
                               /\ ~out.results[i].response.allowed
                               /\ out.results[i].response.reason =
                                     "Error during permission check"
                               /\ ~out.results[i].response.hasDebug

\* C14 witness: with throwOnError = false the scope resolution failed under
\* a batch of three checks, and bulkCheck returned three stubs
BulkDegradedToStubs ==
    /\ constructed.throwOnError = "false"
    /\ bulk.pc = "done"
    /\ Len(bulk.checks) = 3
    /\ promises = <<"rejected">>
    /\ bulk.outcome.kind = "return"
    /\ \A i \in 1..3 : bulk.outcome.results[i].response = BulkStub

(***************************************************************************)
(* Properties of getPermissions                                            *)
(***************************************************************************)

\* the positions of the service's assignments of the user of a
\* getPermissions request, in the tenant of the request when it names one
AssignmentsOf(request) ==
    {j \in DOMAIN store.assignments :
        /\ store.assignments[j].user = request.user
        /\ request.tenant # undefined =>
              store.assignments[j].tenant = request.tenant}

\* the position at which the service first lists role r for the request
FirstAssigned(request, r) ==
    CHOOSE j \in AssignmentsOf(request) :
        /\ store.assignments[j].role = r
        /\ \A k \in AssignmentsOf(request) :
              store.assignments[k].role = r => j <= k

\* C15: getPermissions returns as roles the role keys of the user's
\* assignments, each once, in the order of their first assignment, keys
\* the role table lacks included; and as permissions, without duplicate, the
\* union of the closures of exactly those keys.  With no assignment both are
\* empty and the role definitions are not requested.
PermissionsAreUnionOfClosures ==
    \A p \in Procs :
        ops[p].name = "getPermissions" =>
            LET o == ops[p]
                assigned == {store.assignments[j].role : j \in AssignmentsOf(o.request)}
                roles == o.outcome.roles
            IN  /\ assigned = {} => ~includes(storeCalls[p], "GET schema/roles")
                /\ o.pc = "done" /\ o.failed = "none" =>
                      /\ o.outcome.kind = "return"
                      /\ NoDuplicates(roles)
                      /\ Range(roles) = assigned
                      /\ \A a, b \in DOMAIN roles :
                            a < b => FirstAssigned(o.request, roles[a])
                                        < FirstAssigned(o.request, roles[b])
                      /\ NoDuplicates(o.outcome.permissions)
                      /\ Range(o.outcome.permissions) =
                            UNION {ReachableUnion(r, ServiceTable) : r \in assigned}
                      /\ assigned = {} =>
                            o.outcome.roles = <<>> /\ o.outcome.permissions = <<>>

\* C15 witness: getPermissions returned, for a user assigned a role the
\* table lacks and then admin, both keys and the permissions of admin and of
\* the editor it extends
PermissionsOverMissingAndInherited ==
    \E p \in Procs :
        /\ ops[p].name = "getPermissions"
        /\ ops[p].pc = "done"
        /\ ops[p].outcome.roles = <<"auditor", "admin">>
        /\ ops[p].outcome.permissions =
              <<"document:delete", "document:read", "document:write">>

(***************************************************************************)
(* checkAndThrow, syncUser and the api clients used directly               *)
(***************************************************************************)

\* the one caller of the operations of this part
Callers == {"opA"}

\* getResourceKey: a string resource itself; of an object "type:key" when it
\* has a key, else its type
getResourceKey(resource) ==
    IF ~resource.isObject THEN Concat(resource.chunks)
    ELSE IF Truthy(resource.key) THEN resource.type \o ":" \o resource.key
    ELSE resource.type

\* what checkAndThrow has produced: nothing yet, a normal completion or a
\* thrown error with its code, status, message and details
NoAccess ==
    [kind |-> "pending", code |-> "", statusCode |-> 0, message |-> "",
     request |-> NoRequest, response |-> NoOutcome]

\* a checkAndThrow that throws only when the decision carries no reason
checkAndThrowUnlessExplained(request, outcome) ==
    IF outcome.kind = "throw"
    THEN [NoAccess EXCEPT !.kind = "throw", !.message = outcome.error]
    ELSE IF ~outcome.allowed /\ outcome.reason = ""
    THEN [NoAccess EXCEPT !.kind = "throw", !.code = "ACCESS_DENIED"]
    ELSE [NoAccess EXCEPT !.kind = "return"]

\* checkAndThrow after "await this.checkWithDetails(request)": an error of
\* checkWithDetails leaves it as it is; a decision that does not allow is
\* thrown as the PermissioApiError of lines 475-484
checkAndThrow(request, outcome) ==
    IF outcome.kind = "throw"
    THEN [NoAccess EXCEPT !.kind = "throw", !.message = outcome.error]
    ELSE IF ~outcome.allowed
    THEN [kind |-> "throw", code |-> "ACCESS_DENIED", statusCode |-> 403,
          message |-> "Access denied: User " \o getUserKey(request.user)
                         \o " is not allowed to perform " \o request.action
                         \o " on " \o getResourceKey(request.resource),
          request |-> request, response |-> outcome]
    ELSE [NoAccess EXCEPT !.kind = "return"]

\* the requests checkAndThrow is called with: those of checkWithDetails and
\* one whose resource object has no key
AccessRequests ==
    CheckRequests \cup
        { [user |-> UserObject("u1"), action |-> "write",
           resource |-> ResourceObject("document", undefined),
           tenant |-> undefined] }

\* a path handed to buildPath: "/schema" followed by rest, or rest alone
SchemaPath(rest) == [schema |-> TRUE, rest |-> rest]
FactsPath(rest) == [schema |-> FALSE, rest |-> rest]

\* BaseApiClient.buildPath
buildPath(cfg, path) ==
    IF path.schema
    THEN IF Truthy(cfg.projectId) /\ Truthy(cfg.environmentId)
         THEN "/v1/schema/" \o cfg.projectId \o "/" \o cfg.environmentId
                 \o path.rest
         ELSE "/v1/schema" \o path.rest
    ELSE IF Truthy(cfg.projectId) /\ Truthy(cfg.environmentId)
         THEN "/v1/facts/" \o cfg.projectId \o "/" \o cfg.environmentId
                 \o path.rest
         ELSE "/v1" \o path.rest

\* the userData syncUser is called with: without roles and with two roles
SyncRequests ==
    { [key |-> "u1", roles |-> <<>>],
      [key |-> "u1", roles |-> << [role |-> "admin", tenant |-> "t1"],
                                  [role |-> "viewer", tenant |-> undefined] >>] }

\* the list operations of the api clients a caller may use directly
DirectCalls ==
    { FactsPath("/users"), FactsPath("/tenants"), FactsPath("/role_assignments"),
      SchemaPath("/roles"), SchemaPath("/resources") }

InitFacade ==
    /\ ClosureIdle
    /\ MatchIdle
    /\ BulkIdle
    /\ TransportIdle
    /\ \E scope \in ConstructedScopes, throwOnError \in {"unset", "false"} :
          constructed = [projectId |-> scope[1], environmentId |-> scope[2],
                         throwOnError |-> throwOnError]
    /\ config = resolveConfig(constructed)
    /\ scopeInitialized = FALSE
    /\ scopeInitPromise = 0
    /\ promises = <<>>
    /\ store \in [roles : RoleStores, assignments : AssignmentStores]
    /\ ops = [p \in Callers |-> IdleOp]
    /\ storeCalls = [p \in Callers |-> <<>>]
    /\ access = [p \in Callers |-> NoAccess]

\* checkAndThrow is called: it calls checkWithDetails and awaits it
CheckAndThrowCalled(p) ==
    /\ \E request \in AccessRequests : Enters(p, "checkWithDetails", request)
    /\ access' = [access EXCEPT ![p] = [@ EXCEPT !.kind = "awaiting"]]
    /\ UNCHANGED <<bulk, transport>>

\* checkAndThrow goes on after its checkWithDetails settled
CheckAndThrowSettles(p) ==
    /\ access[p].kind = "awaiting"
    /\ ops[p].pc = "done"
    /\ access' = [access EXCEPT
                     ![p] = checkAndThrow(ops[p].request, ops[p].outcome)]
    /\ UNCHANGED <<closureVars, matchVars, clientVars, bulk, transport>>

\* syncUser is called: it sends the user to the users client at once
SyncUserCalled(p) ==
    /\ ops[p].pc = "idle"
    /\ \E userData \in SyncRequests :
          /\ ops' = [ops EXCEPT ![p] =
                 [IdleOp EXCEPT !.name = "syncUser", !.request = userData,
                                !.pc = "users"]]
          /\ storeCalls' = [storeCalls EXCEPT ![p] =
                 Append(@, "PUT " \o buildPath(config,
                                        FactsPath("/users/" \o userData.key)))]
    /\ UNCHANGED <<constructed, config, scopeInitialized, scopeInitPromise,
                   promises, store>>
    /\ UNCHANGED <<closureVars, matchVars, wrapperVars>>

\* the user was stored: syncUser sends one assignment per role, or returns
UserSyncSucceeds(p) ==
    /\ ops[p].pc = "users"
    /\ LET roles == ops[p].request.roles
       IN  IF Len(roles) > 0
           THEN /\ ops' = [ops EXCEPT ![p] = [@ EXCEPT !.pc = "assigning"]]
                /\ storeCalls' = [storeCalls EXCEPT ![p] =
                       @ \o [i \in DOMAIN roles |->
                               "POST " \o buildPath(config,
                                              FactsPath("/role_assignments"))]]
           ELSE /\ ops' = [ops EXCEPT ![p] =
                       [@ EXCEPT !.pc = "done",
                                 !.outcome = [NoOutcome EXCEPT !.kind = "return"]]]
                /\ UNCHANGED storeCalls
    /\ UNCHANGED <<constructed, config, scopeInitialized, scopeInitPromise,
                   promises, store>>
    /\ UNCHANGED <<closureVars, matchVars, wrapperVars>>

\* every assignment was stored: syncUser returns the user
RoleAssignsSucceed(p) ==
    /\ ops[p].pc = "assigning"
    /\ ops' = [ops EXCEPT ![p] =
           [@ EXCEPT !.pc = "done",
                     !.outcome = [NoOutcome EXCEPT !.kind = "return"]]]
    /\ UNCHANGED <<constructed, config, scopeInitialized, scopeInitPromise,
                   promises, store, storeCalls>>
    /\ UNCHANGED <<closureVars, matchVars, wrapperVars>>

\* a list operation of an api client is called directly
DirectCalled(p) ==
    /\ ops[p].pc = "idle"
    /\ \E path \in DirectCalls :
          /\ ops' = [ops EXCEPT ![p] =
                 [IdleOp EXCEPT !.name = "api", !.pc = "api"]]
          /\ storeCalls' = [storeCalls EXCEPT ![p] =
                 Append(@, "GET " \o buildPath(config, path))]
    /\ UNCHANGED <<constructed, config, scopeInitialized, scopeInitPromise,
                   promises, store>>
    /\ UNCHANGED <<closureVars, matchVars, wrapperVars>>

\* the list is returned
DirectSucceeds(p) ==
    /\ ops[p].pc = "api"
    /\ ops' = [ops EXCEPT ![p] =
           [@ EXCEPT !.pc = "done",
                     !.outcome = [NoOutcome EXCEPT !.kind = "return"]]]
    /\ UNCHANGED <<constructed, config, scopeInitialized, scopeInitPromise,
                   promises, store, storeCalls>>
    /\ UNCHANGED <<closureVars, matchVars, wrapperVars>>

\* a request of syncUser or of a direct call is rejected: neither catches
StoreRequestFails(p) ==
    /\ ops[p].pc \in {"users", "assigning", "api"}
    /\ \E error \in ApiErrorTexts :
          ops' = [ops EXCEPT ![p] =
              [@ EXCEPT !.pc = "done", !.failed = ops[p].pc, !.rejection = error,
                        !.outcome = Throws(error)]]
    /\ UNCHANGED <<constructed, config, scopeInitialized, scopeInitPromise,
                   promises, store, storeCalls>>
    /\ UNCHANGED <<closureVars, matchVars, wrapperVars>>

NextFacade ==
    \/ \E p \in Callers : Call(p)
    \/ \E p \in Callers : CheckAndThrowCalled(p)
    \/ \E p \in Callers : CheckAndThrowSettles(p)
    \/ \E p \in Callers : SyncUserCalled(p)
    \/ \E p \in Callers : UserSyncSucceeds(p)
    \/ \E p \in Callers : RoleAssignsSucceed(p)
    \/ \E p \in Callers : DirectCalled(p)
    \/ \E p \in Callers : DirectSucceeds(p)
    \/ \E p \in Callers : StoreRequestFails(p)
    \/ ScopeFetchSucceeds
    \/ ScopeFetchFails
    \/ \E p \in Callers : ScopeCreatorResumes(p)
    \/ \E p \in Callers : AssignmentsFetchSucceeds(p)
    \/ \E p \in Callers : AssignmentsFetchFails(p)
    \/ \E p \in Callers : RolesFetchSucceeds(p)
    \/ \E p \in Callers : RolesFetchFails(p)

SpecFacade == InitFacade /\ [][NextFacade]_vars

(***************************************************************************)
(* Properties of checkAndThrow                                             *)
(***************************************************************************)

\* the checkAndThrow calls that have settled
SettledAccess == {p \in Callers : access[p].kind \in {"return", "throw"}}

\* the resource key the message is to name, read off the four resources of
\* the requests
NamedResource(resource) ==
    CASE resource = ResourceString(<<"document">>) -> "document"
      [] resource = ResourceString(<<"document", ":", "doc-1">>) -> "document:doc-1"
      [] resource = ResourceObject("image", "img-1") -> "image:img-1"
      [] resource = ResourceObject("document", undefined) -> "document"

\* the error of a decision that does not allow: code, status, message and
\* the request and decision as details
IsAccessDenied(a, request, decision) ==
    /\ a.kind = "throw"
    /\ a.code = "ACCESS_DENIED"
    /\ a.statusCode = 403
    /\ a.request = request
    /\ a.response = decision
    /\ a.message = "Access denied: User u1 is not allowed to perform "
                      \o request.action \o " on " \o NamedResource(request.resource)

\* C16 as stated: checkAndThrow completes normally exactly when
\* checkWithDetails returned allowed = true, and in every other case what it
\* throws is the access-denied error
AccessDeniedInEveryOtherCase ==
    \A p \in SettledAccess :
        LET d == ops[p].outcome
        IN  /\ access[p].kind = "return" <=> (d.kind = "return" /\ d.allowed)
            /\ access[p].kind = "throw" =>
                  IsAccessDenied(access[p], ops[p].request, d)

\* C16: checkAndThrow completes normally exactly when checkWithDetails
\* returned allowed = true; when checkWithDetails returned allowed = false,
\* a downgraded upstream error included, it throws the access-denied error
\* (ACCESS_DENIED, 403) with the request and the decision as details and a
\* message naming the user key, the action and the resource key; when
\* checkWithDetails itself threw, it throws that error and no access-denied
\* error.
AccessDeniedIffDecisionRefuses ==
    \A p \in SettledAccess :
        LET d == ops[p].outcome
        IN  /\ access[p].kind = "return" <=> (d.kind = "return" /\ d.allowed)
            /\ d.kind = "return" /\ ~d.allowed =>
                  IsAccessDenied(access[p], ops[p].request, d)
            /\ d.kind = "throw" =>
                  /\ access[p].kind = "throw"
                  /\ access[p].message = d.error
                  /\ access[p].code # "ACCESS_DENIED"

\* C16 witness: under throwOnError = false a fetch of the check failed, the
\* decision was downgraded and checkAndThrow threw the access-denied error
\* naming an object resource by "type:key"
AccessDeniedOnDowngradedError ==
    \E p \in Callers :
        /\ constructed.throwOnError = "false"
        /\ ops[p].failed = "roles"
        /\ access[p].code = "ACCESS_DENIED"
        /\ access[p].response.reason =
              "Error during permission check: PermissioApiError: Forbidden"
        /\ access[p].message =
              "Access denied: User u1 is not allowed to perform read on image:img-1"

(***************************************************************************)
(* Properties of the scope on the first call                               *)
(***************************************************************************)

\* C18: on a client built without projectId and environmentId, whichever
\* operation is called first (check, getPermissions, getScope, syncUser or
\* a direct call of an api client), the first request the operation sends
\* is the one for the scope: no request to the store precedes it.
ScopeFetchedOnFirstCall ==
    constructed.projectId = undefined /\ constructed.environmentId = undefined =>
        \A p \in Callers :
            storeCalls[p] # <<>> => storeCalls[p][1] = "GET api-key/scope"

(***************************************************************************)
(* Determinism of the check                                                *)
(***************************************************************************)

NoScopeFetch ==
    /\ promises = <<>>
    /\ scopeInitPromise = 0
    /\ \A p \in Procs :
          /\ ~includes(storeCalls[p], "GET api-key/scope")
          /\ ops[p].pc # "scope"
          /\ ops[p].awaits = 0

\* C19 as stated: a client given a projectId and an environmentId, whatever
\* strings they are, never sends a request for the scope
SuppliedScopeNeverFetched ==
    constructed.projectId # undefined /\ constructed.environmentId # undefined =>
        NoScopeFetch

\* C19: a client given a non-empty projectId and a non-empty environmentId
\* is resolved from the start: in every interleaving of its operations no
\* request for the scope is sent, no operation waits in ensureScope, and
\* the config keeps both values.
NonEmptySuppliedScopeNeverFetched ==
    Truthy(constructed.projectId) /\ Truthy(constructed.environmentId) =>
        /\ NoScopeFetch
        /\ ~scopeInitialized
        /\ config.projectId = constructed.projectId
        /\ config.environmentId = constructed.environmentId

\* C19 witness: on a client given both values getScope returned them and a
\* check went through both fetches, with no request for the scope
ScopedClientRanWithoutFetch ==
    /\ constructed.projectId = "p-config" /\ constructed.environmentId = "e-config"
    /\ \E p, q \in Procs :
          /\ ops[p].name = "getScope" /\ ops[p].pc = "done"
          /\ ops[p].outcome.projectId = "p-config"
          /\ ops[p].outcome.environmentId = "e-config"
          /\ ops[q].name = "checkWithDetails" /\ ops[q].pc = "done"
          /\ storeCalls[q] = <<"GET role_assignments", "GET schema/roles">>


(***************************************************************************)
(* The scope at the time of the role-assignment fetch                      *)
(***************************************************************************)

\* C20: whenever checkWithDetails or getPermissions has gone past its scope
\* step and sent the role-assignment request, the config holds both a
\* projectId and an environmentId, whatever the scope endpoint answered.
\* (The config never loses a value, so the scope seen after the request
\* bounds the scope at the time of the request.)
ScopeKnownAtAssignmentFetch ==
    \A p \in Procs :
        /\ ops[p].name \in {"checkWithDetails", "getPermissions"}
        /\ includes(storeCalls[p], "GET role_assignments")
        => hasScope(config)


(***************************************************************************)
(* The debug metadata of a decision                                        *)
(***************************************************************************)

\* the positions of the service's assignments a check is answered with
FetchedFor(o) ==
    {j \in DOMAIN store.assignments :
        /\ store.assignments[j].user = getUserKey(o.request.user)
        /\ o.request.tenant # undefined =>
              store.assignments[j].tenant = o.request.tenant}

\* the position at which role r first stands in the answer to a check
FirstFetched(o, r) ==
    CHOOSE j \in FetchedFor(o) :
        /\ store.assignments[j].role = r
        /\ \A k \in FetchedFor(o) : store.assignments[k].role = r => j <= k

\* C21: in every decision that carries debug metadata, matchedRoles lists
\* exactly the matching role keys, each once, in the order in which the
\* keys first occur in the fetched assignments; matchedPermissions is as
\* long as matchedRoles and each of its entries is the required permission,
\* also when a wildcard made the match; every matched role is assigned.
DebugListsMatchesInAssignmentOrder ==
    \A p \in Checks :
        ops[p].outcome.hasDebug =>
            LET o == ops[p]
                d == o.outcome
                required == extractResourceType(o.request.resource)
                                \o ":" \o o.request.action
            IN  /\ NoDuplicates(d.matchedRoles)
                /\ Range(d.matchedRoles) = GrantingRoles(o)
                /\ \A a, b \in DOMAIN d.matchedRoles :
                      a < b => FirstFetched(o, d.matchedRoles[a])
                                  < FirstFetched(o, d.matchedRoles[b])
                /\ Len(d.matchedPermissions) = Len(d.matchedRoles)
                /\ \A i \in DOMAIN d.matchedPermissions :
                      d.matchedPermissions[i] = required
                /\ Range(d.matchedRoles) \subseteq
                      {store.assignments[j].role : j \in FetchedFor(o)}

\* C21 witness: of viewer, editor and viewer again, both keys matched
\* through the wildcard "document:*" and are listed once, viewer first
TwoRolesMatchedByWildcard ==
    \E p \in Checks :
        /\ ops[p].pc = "done"
        /\ ops[p].outcome.hasDebug
        /\ [j \in DOMAIN store.assignments |-> store.assignments[j].role]
              = <<"viewer", "editor", "admin", "viewer">>
        /\ ops[p].outcome.matchedRoles = <<"viewer", "editor">>
        /\ ops[p].outcome.matchedPermissions = <<"document:read", "document:read">>
        /\ \A k \in DOMAIN store.roles :
              ~includes(store.roles[k].permissions, "document:read")


(***************************************************************************)
(* The requests one check sends                                            *)
(***************************************************************************)

\* the requests of call p to the store, the scope request left out
StoreRequests(p) ==
    LET IsStoreRequest(r) == r # "GET api-key/scope"
    IN  SelectSeq(storeCalls[p], IsStoreRequest)

\* the calls that went past their scope step
PastScope == {p \in DOMAIN ops : ops[p].pc \in {"assignments", "roles", "done"}
                                    /\ ops[p].failed # "scope"}

\* C23: a checkWithDetails call sends one request for the assignments and,
\* when the answer holds an assignment, then one request for the role table
\* and nothing more, however many roles are assigned and however deep they
\* inherit; the role table is never requested first.  The checks of one
\* bulkCheck share nothing: each that passed its scope step sent its own
\* request for the assignments, n checks n requests.
OneAssignmentFetchThenOneRoleFetch ==
    /\ \A p \in DOMAIN ops :
          LET o == ops[p]
              sent == StoreRequests(p)
          IN  /\ sent \in { <<>>, <<"GET role_assignments">>,
                            <<"GET role_assignments", "GET schema/roles">> }
              /\ p \in PastScope => sent # <<>>
              /\ o.pc = "roles" =>
                    sent = <<"GET role_assignments", "GET schema/roles">>
              /\ o.pc = "done" /\ o.failed = "none" /\ FetchedFor(o) # {} =>
                    sent = <<"GET role_assignments", "GET schema/roles">>
    /\ bulk.pc = "done" /\ bulk.outcome.kind = "return" =>
          \A p \in PastScope :
              Len(SelectSeq(storeCalls[p],
                            LAMBDA r : r = "GET role_assignments")) = 1
    /\ bulk.pc = "done" /\ PastScope = DOMAIN ops =>
          Cardinality({p \in DOMAIN ops :
                          includes(storeCalls[p], "GET role_assignments")})
              = Len(bulk.checks)

\* C23 witness: a bulkCheck of three checks returned; over a role table
\* with a cycle each check sent its own two requests, the check of two
\* assigned roles included
ThreeChecksSixRequests ==
    /\ bulk.pc = "done"
    /\ bulk.outcome.kind = "return"
    /\ Len(bulk.checks) = 3
    /\ \A p \in DOMAIN ops :
          StoreRequests(p) = <<"GET role_assignments", "GET schema/roles">>
    /\ \E p \in DOMAIN ops : Len(ops[p].roleKeys) = 2
    /\ store.roles[1].extends = <<"editor">> /\ store.roles[2].extends = <<"viewer">>


(***************************************************************************)
(* Checks against scoped assignments and a role table longer than a page   *)
(***************************************************************************)

\* an ICheckUser with attributes; an ICheckResource with tenant and attributes
UserWith(key, attributes) ==
    [isObject |-> TRUE, text |-> undefined, key |-> key, attributes |-> attributes]
ResourceWith(type, key, tenant, attributes) ==
    [isObject |-> TRUE, chunks |-> <<>>, type |-> type, key |-> key,
     tenant |-> tenant, attributes |-> attributes]

\* the ICheckRequest values with a context: reading a document named by its
\* type, by "type:key" and by an object with a tenant and attributes of its
\* own; writing a document in tenant t2 and in no tenant
ScopedCheckRequests ==
    { [user |-> UserString("u1"), action |-> "read",
       resource |-> ResourceString(<<"document">>),
       tenant |-> undefined, context |-> undefined],
      [user |-> UserString("u1"), action |-> "read",
       resource |-> ResourceString(<<"document", ":", "doc-1">>),
       tenant |-> undefined, context |-> undefined],
      [user |-> UserWith("u1", "vip"), action |-> "read",
       resource |-> ResourceWith("document", "doc-2", "t9", "secret"),
       tenant |-> undefined, context |-> "office"],
      [user |-> UserString("u1"), action |-> "write",
       resource |-> ResourceString(<<"document">>),
       tenant |-> "t2", context |-> undefined],
      [user |-> UserString("u1"), action |-> "write",
       resource |-> ResourceWith("document", undefined, "t2", undefined),
       tenant |-> undefined, context |-> undefined] }

\* an IRoleAssignmentRead with its optional resource and resourceInstance
ScopedAssignment(user, role, tenant, resource, resourceInstance) ==
    [user |-> user, role |-> role, tenant |-> tenant,
     resource |-> resource, resourceInstance |-> resourceInstance]

\* the role assignments of the service: two roles scoped to images, in both
\* orders; and roles held in different tenants next to another user's
ScopedAssignmentStores ==
    { << ScopedAssignment("u1", "writer", "t1", "image", undefined),
         ScopedAssignment("u1", "reviewer", "t1", "image", "img-1") >>,
      << ScopedAssignment("u1", "reviewer", "t1", "image", "img-1"),
         ScopedAssignment("u1", "writer", "t1", "image", undefined) >>,
      << ScopedAssignment("u1", "writer", "t1", undefined, undefined),
         ScopedAssignment("u2", "writer", "t2", undefined, undefined),
         ScopedAssignment("u1", "reviewer", "t2", undefined, undefined) >> }

\* n roles that grant nothing
Fillers(n) == [i \in 1..n |-> Role("filler-" \o ToString(i), <<>>, <<>>)]

\* writer and reviewer inherit "document:read" from base
SharedParentRoles ==
    << Role("base", <<"document:read">>, <<>>),
       Role("writer", <<"document:write">>, <<"base">>),
       Role("reviewer", <<>>, <<"base">>) >>

\* the role definitions of the service: the three roles alone; and the same
\* three in a table of which the first page ends before base and reviewer
PagedRoleStores ==
    { SharedParentRoles,
      <<SharedParentRoles[2]>> \o Fillers(PerPage - 1)
          \o <<SharedParentRoles[1], SharedParentRoles[3]>> }

\* a client constructed with its scope
InitStore ==
    /\ ClosureIdle
    /\ MatchIdle
    /\ BulkIdle
    /\ AccessIdle
    /\ TransportIdle
    /\ \E throwOnError \in {"unset", "false"} :
          constructed = [projectId |-> "p-config", environmentId |-> "e-config",
                         throwOnError |-> throwOnError]
    /\ config = resolveConfig(constructed)
    /\ scopeInitialized = FALSE
    /\ scopeInitPromise = 0
    /\ promises = <<>>
    /\ store \in [roles : PagedRoleStores, assignments : ScopedAssignmentStores]
    /\ ops = [p \in Procs |-> IdleOp]
    /\ storeCalls = [p \in Procs |-> <<>>]

\* a caller calls checkWithDetails
CheckCalled(p) ==
    /\ \E request \in ScopedCheckRequests :
          Enters(p, "checkWithDetails", request)
    /\ UNCHANGED wrapperVars

NextStore ==
    \/ \E p \in Procs : CheckCalled(p)
    \/ \E p \in Procs : AssignmentsFetchSucceeds(p)
    \/ \E p \in Procs : AssignmentsFetchFails(p)
    \/ \E p \in Procs : RolesFetchSucceeds(p)
    \/ \E p \in Procs : RolesFetchFails(p)

SpecStore == InitStore /\ [][NextStore]_vars


(***************************************************************************)
(* Properties of the decision over scoped assignments                      *)
(***************************************************************************)

\* the role table a check builds from the answer to its roles request
FetchedTable == buildRolesMap(listRoles(PerPage))

\* the permissions that satisfy the matcher for a request
Accepted(request) ==
    LET resourceType == extractResourceType(request.resource)
    IN  {resourceType \o ":" \o request.action, resourceType \o ":*", "*:*"}

\* the orders of the elements of a sequence without duplicates
PermutationsOf(seq) ==
    {s \in [DOMAIN seq -> Range(seq)] : Range(s) = Range(seq)}

\* C22: whether an assigned role is in matchedRoles depends on that role and
\* the role table only: it is matched exactly when its own closure, taken
\* alone, satisfies the matcher; so two assigned roles that inherit the
\* granting permission from a common parent are both matched, and every
\* order of the assigned role keys gives the same set of matched roles.
ClosuresComputedIndependently ==
    \A p \in Procs :
        FinishedCheck(p) /\ ops[p].outcome.hasDebug =>
            LET o == ops[p]
                matched == Range(o.outcome.matchedRoles)
            IN  /\ \A r \in Range(o.roleKeys) :
                      /\ r \in matched <=>
                            ReachableUnion(r, FetchedTable) \cap Accepted(o.request) # {}
                      /\ r \in matched <=>
                            decide(o.request, <<r>>, FetchedTable).allowed
                /\ \A perm \in PermutationsOf(o.roleKeys) :
                      Range(decide(o.request, perm, FetchedTable).matchedRoles)
                          = matched
                /\ /\ {"writer", "reviewer"} \subseteq Range(o.roleKeys)
                   /\ "base" \in DOMAIN FetchedTable
                   /\ {"writer", "reviewer"} \subseteq DOMAIN FetchedTable
                   /\ o.request.action = "read"
                   => {"writer", "reviewer"} \subseteq matched

\* C22 witness: reviewer and writer, assigned in this order, both matched
\* over "document:read", which only their common parent base holds
BothHeirsOfBaseMatched ==
    \E p \in Procs :
        /\ FinishedCheck(p)
        /\ store.roles = SharedParentRoles
        /\ ops[p].roleKeys = <<"reviewer", "writer">>
        /\ ops[p].outcome.matchedRoles = <<"reviewer", "writer">>
        /\ ops[p].outcome.matchedPermissions = <<"document:read", "document:read">>


\* C24: the role table a check builds holds every role the store defines,
\* whatever their number; so the check allows exactly when the closure of
\* some assigned role over all the store's roles satisfies the matcher.
CheckUsesFullRoleTable ==
    \A p \in Procs :
        FinishedCheck(p) /\ ops[p].outcome.hasDebug =>
            LET o == ops[p]
            IN  /\ {store.roles[i].key : i \in DOMAIN store.roles}
                      \subseteq DOMAIN FetchedTable
                /\ o.outcome.allowed <=>
                      \E r \in Range(o.roleKeys) :
                          ReachableUnion(r, ServiceTable) \cap Accepted(o.request) # {}


\* C25: the decision does not look at the resource or resourceInstance of
\* an assignment: every fetched assignment whose role's closure satisfies
\* the matcher grants the check and puts its role among matchedRoles, also
\* when the assignment is scoped to another resource type than the one
\* checked, or to one instance of it.
AssignmentResourceScopeIgnored ==
    \A p \in Procs :
        FinishedCheck(p) /\ ops[p].outcome.hasDebug =>
            LET o == ops[p]
            IN  \A j \in FetchedFor(o) :
                    LET a == store.assignments[j]
                    IN  ReachableUnion(a.role, FetchedTable)
                            \cap Accepted(o.request) # {}
                        => /\ o.outcome.allowed
                           /\ includes(o.outcome.matchedRoles, a.role)

\* C25 witness: reading a document was granted by reviewer, which the user
\* holds on the image img-1 only
DocumentGrantedByImageAssignment ==
    \E p \in Procs :
        /\ FinishedCheck(p)
        /\ extractResourceType(ops[p].request.resource) = "document"
        /\ ops[p].outcome.allowed
        /\ includes(ops[p].outcome.matchedRoles, "reviewer")
        /\ \A j \in FetchedFor(ops[p]) :
              /\ store.assignments[j].resource = "image"
              /\ store.assignments[j].role = "reviewer" =>
                    store.assignments[j].resourceInstance = "img-1"


\* the role keys of the user's assignments in the tenants of T
HeldIn(user, T) ==
    {store.assignments[j].role : j \in
        {k \in DOMAIN store.assignments :
            /\ store.assignments[k].user = user
            /\ store.assignments[k].tenant \in T}}

AllTenants == {store.assignments[j].tenant : j \in DOMAIN store.assignments}

\* C26: a check evaluates the assignments the store returns for the user
\* key and, when the request names a tenant, that tenant, and filters none
\* out itself: the role keys it evaluates are the roles the user holds in
\* the tenant of the request, or in any tenant when the request names none.
\* A role the user holds in another tenant only is never matched.
CheckEvaluatesAssignmentsOfTenant ==
    \A p \in Procs :
        FinishedCheck(p) /\ ops[p].outcome.hasDebug =>
            LET o == ops[p]
                user == getUserKey(o.request.user)
                tenant == o.request.tenant
            IN  /\ tenant # undefined =>
                      /\ Range(o.roleKeys) = HeldIn(user, {tenant})
                      /\ \A r \in HeldIn(user, AllTenants) \ HeldIn(user, {tenant}) :
                            ~includes(o.outcome.matchedRoles, r)
                /\ tenant = undefined =>
                      Range(o.roleKeys) = HeldIn(user, AllTenants)

\* C26 witness: writing a document in tenant t2 was refused to a user who
\* holds writer in t1 only, and the same without a tenant was granted by
\* writer
RefusedInT2GrantedWithoutTenant ==
    \E p, q \in Procs :
        /\ FinishedCheck(p) /\ FinishedCheck(q)
        /\ ops[p].request.action = "write" /\ ops[q].request.action = "write"
        /\ ops[p].request.tenant = "t2" /\ ops[q].request.tenant = undefined
        /\ "writer" \in HeldIn("u1", {"t1"}) \ HeldIn("u1", {"t2"})
        /\ ops[p].roleKeys = <<"reviewer">>
        /\ ~ops[p].outcome.allowed
        /\ ops[p].outcome.reason = "No role grants permission document:write"
        /\ ops[q].outcome.allowed
        /\ ops[q].outcome.matchedRoles = <<"writer">>


\* the resource type a request names: the type of an object, the first piece
\* of a string
TypeNamed(resource) ==
    IF resource.isObject THEN resource.type ELSE resource.chunks[1]

\* the fields of a request the decision is said to depend on
UsedFields(request) ==
    <<IF request.user.isObject THEN request.user.key ELSE request.user.text,
      request.action, TypeNamed(request.resource), request.tenant>>

\* C28: against one store the decision of a check depends on the user key,
\* the action, the resource type and the tenant of its request only: two
\* checks whose requests agree on these and differ in the key of the
\* resource, in the attributes or the tenant of the resource, in the
\* attributes of the user or in the context return the same allowed flag,
\* reason, matchedRoles and matchedPermissions.
UnusedRequestFieldsDoNotInterfere ==
    \A p, q \in Procs :
        /\ FinishedCheck(p) /\ FinishedCheck(q)
        /\ UsedFields(ops[p].request) = UsedFields(ops[q].request)
        => /\ ops[p].outcome.kind = "return"
           /\ ops[q].outcome.kind = "return"
           /\ ops[p].outcome.allowed = ops[q].outcome.allowed
           /\ ops[p].outcome.reason = ops[q].outcome.reason
           /\ ops[p].outcome.matchedRoles = ops[q].outcome.matchedRoles
           /\ ops[p].outcome.matchedPermissions = ops[q].outcome.matchedPermissions

\* C28 witness: reading "document:doc-1" and reading the object doc-2 of
\* type document, asked by a user object with attributes and with a context,
\* were granted alike
SameGrantForDoc1AndDoc2 ==
    \E p, q \in Procs :
        /\ FinishedCheck(p) /\ FinishedCheck(q)
        /\ ops[p].request.resource = ResourceString(<<"document", ":", "doc-1">>)
        /\ ops[q].request.resource.key = "doc-2"
        /\ ops[q].request.resource.tenant = "t9"
        /\ ops[q].request.user.attributes = "vip"
        /\ ops[q].request.context = "office"
        /\ ops[p].outcome.allowed /\ ops[q].outcome.allowed
        /\ ops[p].outcome.reason = "Granted by role(s): writer, reviewer"
        /\ ops[q].outcome.reason = ops[p].outcome.reason


(***************************************************************************)
(* check and getPermissions on one store                                   *)
(***************************************************************************)

\* a getPermissions that came to its end with no request failed
FinishedPermissions(q) ==
    /\ ops[q].name = "getPermissions"
    /\ ops[q].pc = "done"
    /\ ops[q].failed = "none"

\* C29: a check and a getPermissions without resource filter, made for the
\* same user and tenant on one store and with no failed request, agree:
\* the check allows exactly when the permissions returned hold the required
\* permission, the wildcard of its resource type or the global wildcard;
\* and every matched role of the check is among the roles returned.
CheckAgreesWithGetPermissions ==
    \A p, q \in Procs :
        /\ FinishedCheck(p) /\ FinishedPermissions(q)
        /\ getUserKey(ops[p].request.user) = ops[q].request.user
        /\ ops[p].request.tenant = ops[q].request.tenant
        /\ ops[q].request.resource = undefined
        => LET t == TypeNamed(ops[p].request.resource)
               a == ops[p].request.action
           IN  /\ ops[q].outcome.kind = "return"
               /\ check(ops[p].outcome) =
                     [kind |-> "return",
                      value |-> Range(ops[q].outcome.permissions)
                                    \cap {t \o ":" \o a, t \o ":*", "*:*"} # {}]
               /\ Range(ops[p].outcome.matchedRoles)
                     \subseteq Range(ops[q].outcome.roles)

\* C29 witness: getPermissions returned the type wildcard "document:*" and
\* the roles viewer and editor, and the check of reading a document was
\* granted by both
CheckGrantedByListedWildcard ==
    \E p, q \in Procs :
        /\ FinishedCheck(p) /\ FinishedPermissions(q)
        /\ ops[p].request.tenant = ops[q].request.tenant
        /\ ops[q].outcome.roles = <<"viewer", "editor">>
        /\ includes(ops[q].outcome.permissions, "document:*")
        /\ ~includes(ops[q].outcome.permissions, "document:read")
        /\ check(ops[p].outcome) = [kind |-> "return", value |-> TRUE]
        /\ ops[p].outcome.matchedRoles = <<"viewer", "editor">>


(***************************************************************************)
(* The scope fetches over the life of a client                             *)
(***************************************************************************)

\* the operation that called fetchAndSetScope for promise n has gone on
CreatorLeft(n) ==
    \E p \in DOMAIN ops :
        ops[p].creator /\ ops[p].awaits = n /\ ops[p].pc # "scope"

\* at no time two fetches are in flight; a fetch that succeeded is the
\* last one; the handle of a failed fetch is cleared once its creator went
\* on, and while no fetch has succeeded the client stays unresolved
ScopeFetchesInTurn ==
    /\ Cardinality({n \in DOMAIN promises : promises[n] = "pending"}) <= 1
    /\ \A n \in DOMAIN promises :
          /\ promises[n] = "fulfilled" => n = Len(promises) /\ scopeInitialized
          /\ promises[n] = "pending" => n = Len(promises) /\ scopeInitPromise = n
          /\ promises[n] = "rejected" /\ CreatorLeft(n) => scopeInitPromise # n
    /\ (\A n \in DOMAIN promises : promises[n] # "fulfilled") =>
          ~scopeInitialized /\ config = resolveConfig(constructed)

\* an operation is entered while the scope is not ready and no handle is set
EnteredUnresolved ==
    /\ ~scopeReady
    /\ scopeInitPromise = 0
    /\ \E p \in DOMAIN ops : ops[p].pc = "idle" /\ ops'[p].pc # "idle"

DefaultRetryAttempts == 3

\* "config.retryAttempts ?? DEFAULT_CONFIG.retryAttempts"; the optional
\* number is held as <<>> when it is not given and as <<n>> when it is
resolveRetryAttempts(c) ==
    IF c.retryAttempts = <<>> THEN DefaultRetryAttempts ELSE c.retryAttempts[1]

\* the retryAttempts the constructor is given
RetryAttemptsGiven == {<<>>, <<0>>, <<1>>, <<2>>}

\* retryableStatuses of handleError
retryableStatuses == <<408, 429, 500, 502, 503, 504>>

\* what becomes of one sending of a request: a response with a status, or
\* an error with no response (the request was made and nothing came back)
Response(status) == [response |-> TRUE, status |-> status]
NoResponse == [response |-> FALSE, status |-> 0]

Answers ==
    {Response(s) : s \in {200, 400, 403, 404, 408, 429, 500, 502, 503, 504}}
        \cup {NoResponse}

\* a handler that also retries when no response came back
shouldRetryAlsoWithoutResponse(retryCount, answer) ==
    /\ retryCount < config.retryAttempts
    /\ ~answer.response \/ includes(retryableStatuses, answer.status)

\* shouldRetry of handleError, with (config._retryCount ?? 0) as retryCount;
\* error.config is the config of the request that failed
shouldRetry(retryCount, answer) ==
    /\ retryCount < config.retryAttempts
    /\ answer.response
    /\ includes(retryableStatuses, answer.status)

\* transformError: the IApiError of an error with a response (whose body
\* names no code) and of one without
transformError(answer) ==
    IF answer.response
    THEN [code |-> "API_ERROR", statusCode |-> answer.status]
    ELSE [code |-> "NETWORK_ERROR", statusCode |-> 0]

\* new PermissioApiError(apiError, error)
PermissioApiError(apiError) ==
    [name |-> "PermissioApiError", code |-> apiError.code,
     statusCode |-> apiError.statusCode]

NoSettling == [kind |-> "pending", error |-> [name |-> "none"]]
Rejects(error) == [kind |-> "rejected", error |-> error]
Resolves == [kind |-> "fulfilled", error |-> [name |-> "none"]]

\* the end of handleError without a retry: "throw" in the async function
\* and "return Promise.reject(...)" both reject its promise
rejection(answer) ==
    IF config.throwOnError
    THEN Rejects(PermissioApiError(transformError(answer)))
    ELSE Rejects(PermissioApiError(transformError(answer)))

\* a request not yet made: _retryCount is undefined, read as 0
IdleTransport ==
    [pc |-> "idle", retryCount |-> 0, answers |-> <<>>, sent |-> 0,
     outcome |-> NoSettling]

InitTransport ==
    /\ ClosureIdle
    /\ MatchIdle
    /\ BulkIdle
    /\ AccessIdle
    /\ \E retryAttempts \in RetryAttemptsGiven, throwOnError \in {"unset", "false"} :
          constructed = [projectId |-> "p-config", environmentId |-> "e-config",
                         throwOnError |-> throwOnError,
                         retryAttempts |-> retryAttempts]
    /\ config = resolveConfig(constructed)
                    @@ [retryAttempts |-> resolveRetryAttempts(constructed)]
    /\ scopeInitialized = FALSE
    /\ scopeInitPromise = 0
    /\ promises = <<>>
    /\ store \in [roles : {SharedParentRoles}, assignments : {<<>>}]
    /\ ops = [p \in Procs |-> IdleOp]
    /\ storeCalls = [p \in Procs |-> <<>>]
    /\ transport = IdleTransport

\* httpGet and its like: the request is handed to the axios client
RequestMade ==
    /\ transport.pc = "idle"
    /\ transport' = [transport EXCEPT !.pc = "sent", !.sent = 1]
    /\ UNCHANGED <<closureVars, matchVars, clientVars, bulk, access>>

\* a response with a status of success passes the interceptor
ResponseArrives ==
    /\ transport.pc = "sent"
    /\ transport' = [transport EXCEPT !.pc = "done",
                                      !.answers = Append(@, Response(200)),
                                      !.outcome = Resolves]
    /\ UNCHANGED <<closureVars, matchVars, clientVars, bulk, access>>

\* the request fails and the response interceptor calls handleError: it
\* counts a retry and sleeps, or rejects with a PermissioApiError
RequestFails ==
    /\ transport.pc = "sent"
    /\ \E answer \in Answers \ {Response(200)} :
          transport' =
              IF shouldRetry(transport.retryCount, answer)
              THEN [transport EXCEPT !.pc = "sleeping",
                                     !.answers = Append(@, answer),
                                     !.retryCount = @ + 1]
              ELSE [transport EXCEPT !.pc = "done",
                                     !.answers = Append(@, answer),
                                     !.outcome = rejection(answer)]
    /\ UNCHANGED <<closureVars, matchVars, clientVars, bulk, access>>

\* the sleep is over: "return this.client.request(config)" sends the
\* request again, its config carrying _retryCount
RequestRetried ==
    /\ transport.pc = "sleeping"
    /\ transport' = [transport EXCEPT !.pc = "sent", !.sent = @ + 1]
    /\ UNCHANGED <<closureVars, matchVars, clientVars, bulk, access>>

NextTransport ==
    \/ RequestMade
    \/ ResponseArrives
    \/ RequestFails
    \/ RequestRetried

SpecTransport == InitTransport /\ [][NextTransport]_vars


\* the i-th sending of the request was followed by another
Reissued(i) ==
    \/ i < transport.sent
    \/ i = Len(transport.answers) /\ transport.pc = "sleeping"

====
